---- MODULE Spec2Model ----
(***************************************************************************)
(* firo_logger: the log-record dispatcher (LoggerInstance), its background *)
(* worker, the rotating FileWriter and the module-level resolution of      *)
(* LoggerConfig, as state machines.                                        *)
(*                                                                         *)
(* The specifications share the variables:                                 *)
(*   Spec       the dispatcher: caller threads, the queue, the worker,     *)
(*              flush and drop (SpecLive adds the worker's fairness);      *)
(*   SpecFilter the dispatcher with one caller and every level;            *)
(*   SpecLevel  LoggerConfig::effective_level on bounded inputs;           *)
(*   SpecFile   one FileWriter with size-based rotation;                   *)
(*   SpecFlush  the dispatcher with one caller that logs and flushes;      *)
(*   SpecNew    LoggerInstance::new and LoggerConfig::validate;            *)
(*   SpecRegistry  the global and the thread-local logger: init,           *)
(*              current_logger, with_scoped_logger;                        *)
(*   SpecWriters   a MultiWriter and its children, some of which fail;     *)
(*   SpecSync   the synchronous dispatcher with a file writer that can     *)
(*              fail, stats() and reset_stats();                           *)
(*   SpecAsync  the asynchronous dispatcher with a worker whose writes can *)
(*              fail and which can end;                                    *)
(*   SpecTime   one FileWriter with daily rotation;                        *)
(*   SpecReconfig  the dispatcher under update_config;                     *)
(*   SpecLock   synchronous writes step by step, under the writer's Mutex; *)
(*   SpecFormat the dispatcher with a configured output format;            *)
(*   SpecSize   the FileWriter on a file left by a previous run;           *)
(*   SpecQueue  the asynchronous dispatcher with a queue capacity;         *)
(*   SpecBuffered a BufferedWriter around a FileWriter;                    *)
(*   SpecFault  the FileWriter when a rotation can fail part-way;          *)
(*   SpecMidnight the FileWriter with daily rotation, created shortly      *)
(*              before midnight;                                           *)
(*   SpecOrder  the locks of a LoggerInstance as its methods take them;    *)
(*   SpecReinit init called again while the installed dispatcher writes.   *)
(***************************************************************************)
EXTENDS Integers, Sequences, FiniteSets, TLC

VARIABLES
    config,      \* LoggerConfig (and its FileConfig) of the instance
    load,        \* the callers: which threads log, how often, with what arguments
    pc,          \* per caller thread: position inside log_with_caller / flush
    arg,         \* per caller thread: the record of the call in progress (after
                 \* flush: .seq = how many records had been sent before it)
    calls,       \* per caller thread: the calls it has completed (history)
    stats,       \* LoggerStats
    queue,       \* the crossbeam channel: messages in flight, head first
    enqueued,    \* history: every record sent, in arrival order
    sender,      \* async_sender: "none" (sync mode), "open", "dropped"
    wpc,         \* worker: "none", "recv", "write", "exit"
    wmsg,        \* worker: the message it holds between recv and write
    waited,      \* ms since the worker's recv_timeout call began (saturating)
    sinceFlush,  \* ms since the worker's last_flush (saturating)
    dpc,         \* Drop for LoggerInstance: "live", "flushed", "writer", "done"
    fw,          \* the FileWriters: "sync" (LoggerInstance.writer), "async" (worker's)
    fs,          \* the directory of the log file: active file and backups
    now,         \* wall clock, seconds since the epoch (bounded)
    accepted,    \* history: lines FileWriter::write returned Ok for, in order
    rotations,   \* history: number of rotate_file calls completed
    query,       \* SpecLevel: the module path asked about
    resolved,    \* SpecLevel: the answer of effective_level, or NotResolved
    GLOBAL_LOGGER,        \* the OnceCell: None, or the instance installed
    THREAD_LOCAL_LOGGER,  \* per thread: None, or the scoped logger
    scopes,      \* per thread: the with_scoped_logger frames on its stack,
                 \* innermost last, each with its `logger` and `previous`
    rpc,         \* per thread: position inside current_logger
    rres,        \* per thread: its last completed registry call (history)
    writers,     \* MultiWriter.writers of the instance: its children in
                 \* insertion order (where a specification follows them)
    lock,        \* the Mutex around LoggerInstance.writer: 0, or the thread
                 \* that holds the guard
    trace,       \* history: the calls made on writers, in order
    peer,        \* LoggerStats of a second LoggerInstance
    snapshot,    \* per thread: what its last stats() call returned
    reset_at     \* history: per level, the log calls counted up to the last
                 \* reset_stats

vars == <<config, load, pc, arg, calls, stats, queue, enqueued, sender, wpc, wmsg,
          waited, sinceFlush, dpc, fw, fs, now, accepted, rotations, query,
          resolved, GLOBAL_LOGGER, THREAD_LOCAL_LOGGER, scopes, rpc, rres,
          writers, lock, trace, peer, snapshot, reset_at>>

dispVars  == <<pc, arg, calls, stats, queue, enqueued, sender, wpc, wmsg,
               waited, sinceFlush, dpc>>
fileVars  == <<fw, fs, rotations>>
levelVars == <<query, resolved>>
registryVars == <<GLOBAL_LOGGER, THREAD_LOCAL_LOGGER, scopes, rpc, rres>>
graphVars == <<writers, lock, trace, peer, snapshot, reset_at>>

----------------------------------------------------------------------------
(* Bounds of the model *)

NumThreads   == 2   \* caller threads
MaxCalls     == 2   \* log calls per caller thread (Spec)
MaxSeqCalls  == 3   \* log calls of the one caller of SpecFilter
MaxModuleLen == 5   \* tokens in a module path asked about (SpecLevel)
MaxKeyLen    == 3   \* tokens in a module_filters key (SpecLevel)
MaxWrites    == 4   \* writes to the FileWriter (SpecFile)
MaxLineLen   == 2   \* bytes of a rendered line (SpecFile)
MaxTime      == 2   \* seconds the clock may advance (SpecFile)
MaxKeep      == 2   \* keep_files (SpecFile)
MaxSize      == 4   \* max_size (SpecFile)
MaxLeft      == 2   \* lines a previous run left in the log file (SpecSize)
MaxCapacity  == 2   \* async_buffer_size (SpecQueue)
MaxFaultSize == 2   \* max_size (SpecFault)
MaxLockCalls == 2   \* method calls per thread (SpecOrder)
MaxInterval  == 2   \* flush_interval of a BufferedWriter, ms (SpecBuffered)
MaxMillis    == 4   \* the clock of SpecBuffered, ms
MaxFlushes   == 2   \* flush() calls on a BufferedWriter (SpecBuffered)
MaxScopeDepth    == 2   \* nested with_scoped_logger scopes per thread
MaxRegistryCalls == 2   \* init / current_logger calls per thread
BufferSize   == 12  \* FileConfig.buffer_size, bytes

(* Program constants *)

FLUSH_INTERVAL == 100   \* ms, the worker's recv timeout and flush period
ROTATION_CHECK_SECS == 60   \* s, the least time between two time-rotation checks
SecondsPerDay == 86400      \* s, what separates two dates of daily rotation

----------------------------------------------------------------------------
(* LogLevel: enum with discriminants, ordered by them (derive(PartialOrd)) *)

LogLevels == {"Error", "Warning", "Info", "Success", "Debug"}

Rank(l) ==
    CASE l = "Error"   -> 0
      [] l = "Warning" -> 1
      [] l = "Info"    -> 2
      [] l = "Success" -> 3
      [] l = "Debug"   -> 4

\* a > b on LogLevel
LevelGt(a, b) == Rank(a) > Rank(b)

\* LogLevel::as_str().len()
LevelStrLen(l) ==
    CASE l = "Error"   -> 5
      [] l = "Warning" -> 7
      [] l = "Info"    -> 4
      [] l = "Success" -> 7
      [] l = "Debug"   -> 5

----------------------------------------------------------------------------
(* Module paths: strings over identifier characters and the separator "::",*)
(* as sequences of tokens.                                                 *)

Sep    == "::"
Tokens == {"a", Sep}

StringsUpTo(n) == UNION {[1..k -> Tokens] : k \in 0..n}

NoModule == <<"-">>      \* Option::None for the module argument

\* no record (a thread outside a call, a worker holding no message)
NoRec == [thr |-> 0, seq |-> 0, level |-> "-", module |-> NoModule]

\* str::split("::"): the parts between separators; "" splits to [""]
RECURSIVE SplitFrom(_, _, _)
SplitFrom(s, i, cur) ==
    IF i > Len(s) THEN <<cur>>
    ELSE IF s[i] = Sep THEN <<cur>> \o SplitFrom(s, i + 1, <<>>)
    ELSE SplitFrom(s, i + 1, Append(cur, s[i]))

split(s) == SplitFrom(s, 1, <<>>)

\* the for loop of effective_level over parts[i..], current_path built so far
RECURSIVE ParentWalk(_, _, _, _)
ParentWalk(cfg, parts, i, current_path) ==
    IF i > Len(parts) THEN cfg.level
    ELSE LET sepd == IF current_path # <<>> THEN Append(current_path, Sep)
                     ELSE current_path
             path == sepd \o parts[i]
         IN  IF path \in DOMAIN cfg.module_filters
             THEN cfg.module_filters[path]
             ELSE ParentWalk(cfg, parts, i + 1, path)

effective_level(cfg, module) ==
    IF module \in DOMAIN cfg.module_filters
    THEN cfg.module_filters[module]
    ELSE ParentWalk(cfg, split(module), 1, <<>>)

----------------------------------------------------------------------------
(* Files and the BufWriter<File> of a FileWriter.                          *)
(* A file is its lines in order and its modification time; a line is the   *)
(* rendered string of one record (rec: what it renders, len: its bytes).   *)
(* Writes are modelled a whole line (string and terminator) at a time.     *)

NoFile    == [exists |-> FALSE, lines |-> <<>>, mtime |-> 0]
EmptyFile(t) == [exists |-> TRUE, lines |-> <<>>, mtime |-> t]

Suffixes  == 0..MaxTime     \* backup names: "{path}.{suffix}"

NoWriter  == [open |-> FALSE, buf |-> <<>>, current_size |-> 0]

\* formatted.len() + 1: the line and its newline
LineBytes(line) == line.len + 1

RECURSIVE SeqBytes(_)
SeqBytes(lines) ==
    IF lines = <<>> THEN 0 ELSE LineBytes(Head(lines)) + SeqBytes(Tail(lines))

\* st = [w: one FileWriter, fs: the directory, rot: rotations so far]

\* the handle writes bytes through to the file at current_path; when the
\* file was removed from the directory while the handle is open, the bytes
\* go to the unlinked file and the path stays absent
DiskAppend(st, lines, t) ==
    IF lines = <<>> \/ ~st.fs.active.exists THEN st
    ELSE [st EXCEPT !.fs.active =
              [exists |-> TRUE, lines |-> @.lines \o lines, mtime |-> t]]

\* BufWriter::flush
BufFlush(st, t) == [DiskAppend(st, st.w.buf, t) EXCEPT !.w.buf = <<>>]

\* writeln!(writer, "{}", formatted) on a BufWriter of capacity cap
BufWrite(st, line, t, cap) ==
    LET s1 == IF SeqBytes(st.w.buf) + LineBytes(line) > cap
              THEN BufFlush(st, t) ELSE st
    IN  IF LineBytes(line) >= cap
        THEN DiskAppend(s1, <<line>>, t)
        ELSE [s1 EXCEPT !.w.buf = Append(@, line)]

\* FileWriter::open_file: create, append or truncate, size from metadata
open_file(st, fcfg, t) ==
    LET f      == st.fs.active
        opened == IF fcfg.append /\ f.exists THEN f ELSE EmptyFile(t)
    IN  [st EXCEPT !.fs.active = opened,
                   !.w.open = TRUE, !.w.buf = <<>>,
                   !.w.current_size = SeqBytes(opened.lines)]

\* a retention that keeps the oldest keep_files backups
\* (what a keep-the-newest claim has to tell from cleanup_old_backups)
cleanup_keep_oldest(st, keep_files) ==
    IF keep_files = 0 THEN {st}
    ELSE LET b        == st.fs.backups
             existing == {s \in DOMAIN b : b[s].exists}
             n        == Cardinality(existing)
             k        == IF n < keep_files THEN n ELSE keep_files
             oldest   == {K \in SUBSET existing :
                             /\ Cardinality(K) = k
                             /\ \A x \in K, y \in existing \ K :
                                    b[x].mtime <= b[y].mtime}
         IN  {[st EXCEPT !.fs.backups =
                   [s \in DOMAIN b |-> IF s \in kept THEN b[s] ELSE NoFile]]
              : kept \in oldest}

\* a retention without the early return for keep_files = 0: skip(0) removes
\* every backup (what an unlimited-retention claim has to tell from
\* cleanup_old_backups)
cleanup_zero_deletes_all(st, keep_files) ==
    LET b        == st.fs.backups
        existing == {s \in DOMAIN b : b[s].exists}
        n        == Cardinality(existing)
        k        == IF n < keep_files THEN n ELSE keep_files
        newest   == {K \in SUBSET existing :
                        /\ Cardinality(K) = k
                        /\ \A x \in K, y \in existing \ K :
                               b[x].mtime >= b[y].mtime}
    IN  {[st EXCEPT !.fs.backups =
              [s \in DOMAIN b |-> IF s \in kept THEN b[s] ELSE NoFile]]
         : kept \in newest}

\* FileWriter::cleanup_old_backups: the possible outcomes (files of equal
\* modification time are sorted in directory order, which is arbitrary)
cleanup_old_backups(st, keep_files) ==
    IF keep_files = 0 THEN {st}
    ELSE LET b        == st.fs.backups
             existing == {s \in DOMAIN b : b[s].exists}
             n        == Cardinality(existing)
             k        == IF n < keep_files THEN n ELSE keep_files
             newest   == {K \in SUBSET existing :
                             /\ Cardinality(K) = k
                             /\ \A x \in K, y \in existing \ K :
                                    b[x].mtime >= b[y].mtime}
         IN  {[st EXCEPT !.fs.backups =
                   [s \in DOMAIN b |-> IF s \in kept THEN b[s] ELSE NoFile]]
              : kept \in newest}

\* the rotation suffix: seconds since the epoch for size-based rotation,
\* the date ("%Y-%m-%d", here the day's number) for daily rotation
RotationSuffix(fcfg, t) ==
    IF fcfg.rotation.kind = "Time" THEN t \div SecondsPerDay ELSE t

\* FileWriter::rotate_file: the possible outcomes
rotate_file(st, fcfg, t) ==
    LET closed == [BufFlush(st, t) EXCEPT !.w.open = FALSE]
    IN  IF fcfg.rotation.kind = "None" THEN {closed}
        ELSE LET suffix == RotationSuffix(fcfg, t)
                 moved  == IF closed.fs.active.exists
                           THEN [closed EXCEPT
                                    !.fs.backups[suffix] = closed.fs.active,
                                    !.fs.active = NoFile]
                           ELSE closed
             IN  {open_file([s EXCEPT !.w.current_size = 0,
                                      !.rot = @ + 1], fcfg, t)
                  : s \in cleanup_old_backups(moved, fcfg.rotation.keep_files)}

\* a should_rotate decision that waits until the counter has passed max_size
\* (what a rotate-at-the-threshold claim has to tell from should_rotate)
should_rotate_past(st, fcfg) ==
    CASE fcfg.rotation.kind = "None" -> FALSE
      [] fcfg.rotation.kind = "Size" ->
             st.w.current_size > fcfg.rotation.max_size

\* the should_rotate decision of check_and_rotate
should_rotate(st, fcfg) ==
    CASE fcfg.rotation.kind = "None" -> FALSE
      [] fcfg.rotation.kind = "Size" ->
             st.w.current_size >= fcfg.rotation.max_size

\* FileWriter::check_and_rotate: the possible outcomes
check_and_rotate(st, fcfg, t) ==
    IF should_rotate(st, fcfg) THEN rotate_file(st, fcfg, t) ELSE {st}

\* a write that leaves the line in the BufWriter even when flush_interval
\* is 0 (what a durable-on-return claim has to tell from FileWriter_write)
FileWriter_write_buffered(st, fcfg, line, t) ==
    {IF s.w.open
     THEN [BufWrite(s, line, t, fcfg.buffer_size) EXCEPT
              !.w.current_size = @ + LineBytes(line)]
     ELSE s
     : s \in check_and_rotate(st, fcfg, t)}

\* impl Writer for FileWriter :: write: the possible outcomes
FileWriter_write(st, fcfg, line, t) ==
    {IF s.w.open
     THEN LET wr == [BufWrite(s, line, t, fcfg.buffer_size) EXCEPT
                        !.w.current_size = @ + LineBytes(line)]
          IN  IF fcfg.flush_interval = 0 THEN BufFlush(wr, t) ELSE wr
     ELSE s
     : s \in check_and_rotate(st, fcfg, t)}

\* a flush that writes the buffered bytes out but keeps them buffered
\* (what an idempotence claim has to tell from FileWriter_flush)
FileWriter_flush_keeps_buffer(st, t) ==
    IF st.w.open THEN DiskAppend(st, st.w.buf, t) ELSE st

\* impl Writer for FileWriter :: flush
FileWriter_flush(st, t) == IF st.w.open THEN BufFlush(st, t) ELSE st

\* dropping a FileWriter: the BufWriter flushes, the File closes
FileWriter_drop(st, t) == [BufFlush(st, t) EXCEPT !.w = NoWriter]

\* FileWriter::new on an empty directory
FileWriter_new(fcfg, t) ==
    open_file([w |-> NoWriter,
               fs |-> [active |-> NoFile, backups |-> [s \in Suffixes |-> NoFile]],
               rot |-> 0], fcfg, t)

\* one FileWriter of the model with the shared directory, and back
St(id) == [w |-> fw[id], fs |-> fs, rot |-> rotations]

Put(id, st) ==
    /\ fw' = [fw EXCEPT ![id] = st.w]
    /\ fs' = st.fs
    /\ rotations' = st.rot

----------------------------------------------------------------------------
(* SpecFile: one FileWriter with size-based rotation, written to directly  *)

FileConfigs ==
    [append : {TRUE}, buffer_size : {BufferSize}, flush_interval : {0, 1000},
     rotation : [kind : {"Size"}, max_size : 1..MaxSize, keep_files : 0..MaxKeep]]

NoLoad == [threads |-> {}, maxCalls |-> 0, levels |-> {}, modules |-> {}]

\* Option::None where a logger may be
None == [id |-> "None"]

\* no registry call made yet by thread t
NoCall == [n |-> 0, op |-> "-"]

\* the registry as the process starts: the OnceCell empty, no thread-local
\* logger, no scope entered
EmptyRegistry ==
    /\ GLOBAL_LOGGER = None
    /\ THREAD_LOCAL_LOGGER = [t \in 1..NumThreads |-> None]
    /\ scopes = [t \in 1..NumThreads |-> <<>>]
    /\ rpc = [t \in 1..NumThreads |-> "idle"]
    /\ rres = [t \in 1..NumThreads |-> NoCall]

\* LoggerStats::default(): every counter 0, no level in messages_by_level
\* (a level absent from the HashMap is a count of 0)
DefaultStats ==
    [total_messages |-> 0, error_count |-> 0,
     messages_by_level |-> [l \in LogLevels |-> 0]]

\* no stats() call made yet
NoSnapshot == [n |-> 0, resets |-> 0]

\* the Mutex around the writer free, no call made on a writer yet, a second
\* instance just created, no stats() and no reset_stats() call yet
FreshGraph ==
    /\ lock = 0
    /\ trace = <<>>
    /\ peer = DefaultStats
    /\ snapshot = [t \in 1..NumThreads |-> NoSnapshot]
    /\ reset_at = [n |-> 0, counted |-> [l \in LogLevels |-> 0]]

\* the writer graph where no specification follows it: no child listed
EmptyGraph == writers = <<>> /\ FreshGraph

IdleDispatcher ==
    /\ load = NoLoad
    /\ pc = [t \in 1..NumThreads |-> "idle"]
    /\ arg = [t \in 1..NumThreads |-> NoRec]
    /\ calls = [t \in 1..NumThreads |-> <<>>]
    /\ stats = [total_messages |-> 0, error_count |-> 0,
                messages_by_level |-> [l \in LogLevels |-> 0]]
    /\ queue = <<>>
    /\ enqueued = <<>>
    /\ sender = "none"
    /\ wpc = "none"
    /\ wmsg = NoRec
    /\ waited = 0
    /\ sinceFlush = 0
    /\ dpc = "live"
    /\ EmptyRegistry

InitFile ==
    /\ \E fcfg \in FileConfigs :
          /\ config = [level |-> "Info", module_filters |-> <<>>,
                       async_enabled |-> FALSE, file |-> fcfg]
          /\ LET st == FileWriter_new(fcfg, 0)
             IN  /\ fw = [id \in {"sync", "async"} |->
                             IF id = "sync" THEN st.w ELSE NoWriter]
                 /\ fs = st.fs
                 /\ rotations = st.rot
    /\ now = 0
    /\ accepted = <<>>
    /\ query = <<>>
    /\ resolved = "-"
    /\ IdleDispatcher
    /\ EmptyGraph

\* writer.write(&record, formatted) on the FileWriter
FileWrite ==
    /\ Len(accepted) < MaxWrites
    /\ \E len \in 1..MaxLineLen :
          LET line == [rec |-> Len(accepted) + 1, len |-> len]
          IN  /\ \E st \in FileWriter_write(St("sync"), config.file, line, now) :
                    Put("sync", st)
              /\ accepted' = Append(accepted, line)
    /\ UNCHANGED <<registryVars, graphVars, config, load, dispVars, now, levelVars>>

\* writer.flush() on the FileWriter
FileFlush ==
    /\ fw["sync"].buf # <<>>
    /\ Put("sync", FileWriter_flush(St("sync"), now))
    /\ UNCHANGED <<registryVars, graphVars, config, load, dispVars, now, accepted, levelVars>>

\* a second passes
ClockTick ==
    /\ now < MaxTime
    /\ now' = now + 1
    /\ UNCHANGED <<registryVars, graphVars, config, load, dispVars, fileVars, accepted, levelVars>>

NextFile == FileWrite \/ FileFlush \/ ClockTick

SpecFile == InitFile /\ [][NextFile]_vars

\* the lines of the backups in rotation order (by suffix), then the active
\* file, then what its BufWriter still holds
RECURSIVE BackupLines(_)
BackupLines(s) ==
    IF s > MaxTime THEN <<>> ELSE fs.backups[s].lines \o BackupLines(s + 1)

AllLines == BackupLines(0) \o fs.active.lines \o fw["sync"].buf

----------------------------------------------------------------------------
(* SpecLevel: LoggerConfig::effective_level on bounded inputs              *)

NotResolved == "-"

FilterKeys   == StringsUpTo(MaxKeyLen)
FilterLevels == {"Error", "Debug"}

\* module_filters with at most two entries
FilterMaps ==
    UNION {[K -> FilterLevels] :
           K \in {{k1, k2} : k1 \in FilterKeys, k2 \in FilterKeys} \cup {{}}}

NoFileConfig ==
    [append |-> TRUE, buffer_size |-> BufferSize, flush_interval |-> 1000,
     rotation |-> [kind |-> "None", max_size |-> 0, keep_files |-> 0]]

InitLevel ==
    /\ \E f \in FilterMaps :
          config = [level |-> "Info", module_filters |-> f,
                    async_enabled |-> FALSE, file |-> NoFileConfig]
    /\ query \in StringsUpTo(MaxModuleLen)
    /\ resolved = NotResolved
    /\ fw = [id \in {"sync", "async"} |-> NoWriter]
    /\ fs = [active |-> NoFile, backups |-> [s \in Suffixes |-> NoFile]]
    /\ rotations = 0
    /\ now = 0
    /\ accepted = <<>>
    /\ IdleDispatcher
    /\ EmptyGraph

\* config.effective_level(module_name)
Resolve ==
    /\ resolved = NotResolved
    /\ resolved' = effective_level(config, query)
    /\ UNCHANGED <<registryVars, graphVars, config, load, dispVars, fileVars, now, accepted, query>>

NextLevel == Resolve

SpecLevel == InitLevel /\ [][NextLevel]_vars

\* the ancestor paths of a module: its proper prefixes that end where a
\* "::" begins
Ancestors(m) == {SubSeq(m, 1, i - 1) : i \in {j \in 1..Len(m) : m[j] = Sep}}

\* the ancestors (and the module itself) that have an override
Overridden(cfg, m) == (Ancestors(m) \cup {m}) \cap DOMAIN cfg.module_filters

----------------------------------------------------------------------------
(* Spec: the dispatcher. LoggerInstance::new has run; caller threads log   *)
(* and flush, the worker drains the queue, the instance is dropped.        *)

Threads == 1..NumThreads

CallModules == {NoModule, <<"a">>}

DispatcherFilters == {<<>>} \cup [{<<"a">>} -> {"Warning"}]

\* a field of the configuration, where the specification sets it, else its
\* value in LoggerConfig::default()
Field(cfg, name, default) == IF name \in DOMAIN cfg THEN cfg[name] ELSE default

\* the formatter a line was rendered with. Synchronous path:
\* create_formatter(config.format, config.console.colors, .., config.include_caller, ..)
ConfigFormat ==
    [format |-> Field(config, "format", "Text"), colors |-> TRUE,
     include_caller |-> Field(config, "include_caller", FALSE)]

\* the worker: create_formatter of LoggerConfig::default(), colors false
WorkerFormat ==
    [format |-> "Text", colors |-> FALSE, include_caller |-> FALSE]

\* formatter.format(&record): the rendered line
Render(fmt, rec) == [rec |-> rec, len |-> LevelStrLen(rec.level), fmt |-> fmt]

\* a channel that drops a message sent while another is queued
\* (what an exactly-once claim has to tell from Send)
SendLossy(q, m) == IF Len(q) >= 1 THEN q ELSE Append(q, m)

\* crossbeam unbounded channel, sender.send(message): appends
Send(q, m) == Append(q, m)

\* a channel that hands out the newest message first
\* (what an ordering claim has to tell from Recv)
RecvLifo(q) == [msg |-> q[Len(q)], rest |-> SubSeq(q, 1, Len(q) - 1)]

\* crossbeam unbounded channel, receiver.recv_timeout: takes the head
Recv(q) == [msg |-> Head(q), rest |-> Tail(q)]

\* a check that also filters the threshold level itself
\* (what a threshold claim has to tell from Filtered)
FilteredGe(level, eff) == Rank(level) >= Rank(eff)

\* `level > effective_level`: the record is filtered out
Filtered(level, eff) == LevelGt(level, eff)

\* the effective level log_with_caller compares with
EffectiveFor(cfg, module) ==
    IF module # NoModule THEN effective_level(cfg, module) ELSE cfg.level

\* LoggerInstance::new(config) has returned Ok
NewInstance ==
    /\ LET st == FileWriter_new(config.file, 0)
       IN  /\ fw = [id \in {"sync", "async"} |->
                       IF id = "sync" \/ config.async_enabled
                       THEN st.w ELSE NoWriter]
           /\ fs = st.fs
           /\ rotations = st.rot
    /\ pc = [t \in Threads |-> "idle"]
    /\ arg = [t \in Threads |-> NoRec]
    /\ calls = [t \in Threads |-> <<>>]
    /\ stats = [total_messages |-> 0, error_count |-> 0,
                messages_by_level |-> [l \in LogLevels |-> 0]]
    /\ queue = <<>>
    /\ enqueued = <<>>
    /\ sender = IF config.async_enabled THEN "open" ELSE "none"
    /\ wpc = IF config.async_enabled THEN "recv" ELSE "none"
    /\ wmsg = NoRec
    /\ waited = 0
    /\ sinceFlush = 0
    /\ dpc = "live"
    /\ now = 0
    /\ accepted = <<>>
    /\ query = <<>>
    /\ resolved = NotResolved
    /\ EmptyRegistry

\* concurrent callers at two levels around the threshold
Init ==
    /\ \E l \in {"Warning", "Info"}, a \in BOOLEAN :
          config = [level |-> l, module_filters |-> <<>>, async_enabled |-> a,
                    file |-> NoFileConfig]
    /\ load = [threads |-> Threads, maxCalls |-> MaxCalls,
               levels |-> {"Warning", "Info"}, modules |-> {NoModule}]
    /\ NewInstance
    /\ EmptyGraph

\* one caller, every level and threshold, with and without module override
InitFilter ==
    /\ \E l \in LogLevels, a \in BOOLEAN, f \in DispatcherFilters :
          config = [level |-> l, module_filters |-> f, async_enabled |-> a,
                    file |-> NoFileConfig]
    /\ load = [threads |-> {1}, maxCalls |-> MaxSeqCalls,
               levels |-> LogLevels, modules |-> CallModules]
    /\ NewInstance
    /\ EmptyGraph

\* a completed call, as the caller saw it
Completed(rec, res) == [level |-> rec.level, module |-> rec.module, res |-> res]

\* a caller enters log_with_caller(level, args, caller, module)
LogCall(t) ==
    /\ dpc = "live"
    /\ pc[t] = "idle"
    /\ t \in load.threads
    /\ Len(calls[t]) < load.maxCalls
    /\ \E level \in load.levels, module \in load.modules :
          arg' = [arg EXCEPT ![t] = [thr |-> t, seq |-> Len(calls[t]) + 1,
                                     level |-> level, module |-> module]]
    /\ pc' = [pc EXCEPT ![t] = "filter"]
    /\ UNCHANGED <<registryVars, graphVars, config, load, calls, stats, queue, enqueued, sender, wpc, wmsg,
                   waited, sinceFlush, dpc, fileVars, now, accepted, levelVars>>

\* a level check that counts the call before deciding
\* (what a no-side-effect claim has to tell from LogFilter)
LogFilterCounting(t) ==
    /\ pc[t] = "filter"
    /\ stats' = [stats EXCEPT !.total_messages = @ + 1]
    /\ IF Filtered(arg[t].level, EffectiveFor(config, arg[t].module))
       THEN /\ pc' = [pc EXCEPT ![t] = "idle"]
            /\ calls' = [calls EXCEPT ![t] = Append(@, Completed(arg[t], "Ok"))]
            /\ arg' = [arg EXCEPT ![t] = NoRec]
       ELSE /\ pc' = [pc EXCEPT ![t] = "stats"]
            /\ UNCHANGED <<calls, arg>>
    /\ UNCHANGED <<registryVars, graphVars, config, load, queue, enqueued, sender, wpc, wmsg,
                   waited, sinceFlush, dpc, fileVars, now, accepted, levelVars>>

\* log_with_caller: config.read(), the level check, the record
LogFilter(t) ==
    /\ pc[t] = "filter"
    /\ IF Filtered(arg[t].level, EffectiveFor(config, arg[t].module))
       THEN /\ pc' = [pc EXCEPT ![t] = "idle"]
            /\ calls' = [calls EXCEPT ![t] = Append(@, Completed(arg[t], "Ok"))]
            /\ arg' = [arg EXCEPT ![t] = NoRec]
       ELSE /\ pc' = [pc EXCEPT ![t] = "stats"]
            /\ UNCHANGED <<calls, arg>>
    /\ UNCHANGED <<registryVars, graphVars, config, load, stats, queue, enqueued, sender, wpc, wmsg,
                   waited, sinceFlush, dpc, fileVars, now, accepted, levelVars>>

\* a lock that is given to every thread that asks
\* (what an atomicity claim has to tell from StatsLockFree)
StatsLockIgnored == TRUE

\* self.stats.lock() can be taken: no thread is inside reset_stats, holding
\* the guard
StatsLockFree == \A u \in 1..NumThreads : pc[u] # "reset"

\* a statistics update that counts the call in total_messages only
\* (what a per-level count claim has to tell from LogStats)
LogStatsTotalOnly(t) ==
    /\ pc[t] = "stats"
    /\ StatsLockFree
    /\ stats' = [stats EXCEPT !.total_messages = @ + 1]
    /\ pc' = [pc EXCEPT ![t] = "deliver"]
    /\ UNCHANGED <<registryVars, graphVars, config, load, arg, calls, queue, enqueued, sender, wpc, wmsg,
                   waited, sinceFlush, dpc, fileVars, now, accepted, levelVars>>

\* log_with_caller: the statistics update, under the stats lock
LogStats(t) ==
    /\ pc[t] = "stats"
    /\ StatsLockFree
    /\ stats' = [stats EXCEPT !.total_messages = @ + 1,
                              !.messages_by_level[arg[t].level] = @ + 1]
    /\ pc' = [pc EXCEPT ![t] = "deliver"]
    /\ UNCHANGED <<registryVars, graphVars, config, load, arg, calls, queue, enqueued, sender, wpc, wmsg,
                   waited, sinceFlush, dpc, fileVars, now, accepted, levelVars>>

\* a send that drops the record and returns Ok when the channel is
\* disconnected (what a never-silently-dropped claim has to tell from LogSend)
LogSendSilent(t) ==
    /\ pc[t] = "deliver"
    /\ sender # "none"
    /\ IF wpc = "exit"
       THEN UNCHANGED <<queue, enqueued>>
       ELSE /\ queue' = Send(queue, arg[t])
            /\ enqueued' = Append(enqueued, arg[t])
    /\ calls' = [calls EXCEPT ![t] = Append(@, Completed(arg[t], "Ok"))]
    /\ pc' = [pc EXCEPT ![t] = "idle"]
    /\ arg' = [arg EXCEPT ![t] = NoRec]
    /\ UNCHANGED <<registryVars, graphVars, config, load, stats, sender, wpc, wmsg, waited,
                   sinceFlush, dpc, fileVars, now, accepted, levelVars>>

\* log_with_caller, async_sender is Some: sender.send(async_msg)
LogSend(t) ==
    /\ pc[t] = "deliver"
    /\ sender # "none"
    /\ IF wpc = "exit"
       THEN /\ stats' = [stats EXCEPT !.error_count = @ + 1]
            /\ calls' = [calls EXCEPT ![t] = Append(@, Completed(arg[t], "Channel"))]
            /\ UNCHANGED <<queue, enqueued>>
       ELSE /\ queue' = Send(queue, arg[t])
            /\ enqueued' = Append(enqueued, arg[t])
            /\ calls' = [calls EXCEPT ![t] = Append(@, Completed(arg[t], "Ok"))]
            /\ UNCHANGED stats
    /\ pc' = [pc EXCEPT ![t] = "idle"]
    /\ arg' = [arg EXCEPT ![t] = NoRec]
    /\ UNCHANGED <<registryVars, graphVars, config, load, sender, wpc, wmsg, waited, sinceFlush, dpc,
                   fileVars, now, accepted, levelVars>>

\* log_with_caller, synchronous: format, writer.lock(), writer.write()
LogWrite(t) ==
    /\ pc[t] = "deliver"
    /\ sender = "none"
    /\ \E st \in FileWriter_write(St("sync"), config.file,
                                  Render(ConfigFormat, arg[t]), now) :
          Put("sync", st)
    /\ calls' = [calls EXCEPT ![t] = Append(@, Completed(arg[t], "Ok"))]
    /\ pc' = [pc EXCEPT ![t] = "idle"]
    /\ arg' = [arg EXCEPT ![t] = NoRec]
    /\ UNCHANGED <<registryVars, graphVars, config, load, stats, queue, enqueued, sender, wpc, wmsg, waited,
                   sinceFlush, dpc, now, accepted, levelVars>>

\* a flush that reaches into the worker's writer from the caller's thread
\* (what an exclusive-ownership claim has to tell from Flush)
FlushWorkerWriter(t) ==
    /\ dpc = "live"
    /\ pc[t] = "idle"
    /\ t \in load.threads
    /\ Put(IF sender # "none" THEN "async" ELSE "sync",
           FileWriter_flush(St(IF sender # "none" THEN "async" ELSE "sync"), now))
    /\ pc' = [pc EXCEPT ![t] = "flushed"]
    /\ arg' = [arg EXCEPT ![t] = [NoRec EXCEPT !.seq = Len(enqueued)]]
    /\ UNCHANGED <<registryVars, graphVars, config, load, calls, stats, queue, enqueued, sender, wpc,
                   wmsg, waited, sinceFlush, dpc, now, accepted, levelVars>>

\* LoggerInstance::flush: a no-op returning Ok when async_sender is Some,
\* else writer.lock().flush(); pc "flushed" is the moment flush has returned,
\* and arg[t].seq then tells how many records had been sent before the call
Flush(t) ==
    /\ dpc = "live"
    /\ pc[t] = "idle"
    /\ t \in load.threads
    /\ IF sender # "none"
       THEN UNCHANGED fileVars
       ELSE Put("sync", FileWriter_flush(St("sync"), now))
    /\ pc' = [pc EXCEPT ![t] = "flushed"]
    /\ arg' = [arg EXCEPT ![t] = [NoRec EXCEPT !.seq = Len(enqueued)]]
    /\ UNCHANGED <<registryVars, graphVars, config, load, calls, stats, queue, enqueued, sender, wpc,
                   wmsg, waited, sinceFlush, dpc, now, accepted, levelVars>>

\* flush() called again right after flush() returned, with nothing in
\* between on this thread; pc "flushed2" is the moment the second has returned
FlushAgain(t) ==
    /\ dpc = "live"
    /\ pc[t] = "flushed"
    /\ IF sender # "none"
       THEN UNCHANGED fileVars
       ELSE Put("sync", FileWriter_flush(St("sync"), now))
    /\ pc' = [pc EXCEPT ![t] = "flushed2"]
    /\ arg' = [arg EXCEPT ![t] = [NoRec EXCEPT !.seq = Len(enqueued)]]
    /\ UNCHANGED <<registryVars, graphVars, config, load, calls, stats, queue, enqueued, sender, wpc,
                   wmsg, waited, sinceFlush, dpc, now, accepted, levelVars>>

\* the caller goes on after flush
FlushReturn(t) ==
    /\ pc[t] \in {"flushed", "flushed2"}
    /\ pc' = [pc EXCEPT ![t] = "idle"]
    /\ arg' = [arg EXCEPT ![t] = NoRec]
    /\ UNCHANGED <<registryVars, graphVars, config, load, calls, stats, queue, enqueued, sender, wpc,
                   wmsg, waited, sinceFlush, dpc, fileVars, now, accepted,
                   levelVars>>

----------------------------------------------------------------------------
(* The background worker ("firo-logger-async")                             *)

Min(a, b) == IF a < b THEN a ELSE b

\* receiver.recv_timeout(FLUSH_INTERVAL) returns Ok(msg)
WorkerRecv ==
    /\ wpc = "recv"
    /\ queue # <<>>
    /\ wmsg' = Recv(queue).msg
    /\ queue' = Recv(queue).rest
    /\ wpc' = "write"
    /\ waited' = 0
    /\ UNCHANGED <<registryVars, graphVars, config, load, pc, arg, calls, stats, enqueued, sender,
                   sinceFlush, dpc, fileVars, now, accepted, levelVars>>

\* the worker formats with LoggerConfig::default() and writes; a failed
\* write is ignored
WorkerWrite ==
    /\ wpc = "write"
    /\ \E st \in FileWriter_write(St("async"), config.file,
                                  Render(WorkerFormat, wmsg), now) :
          Put("async", st)
    /\ wmsg' = NoRec
    /\ wpc' = "recv"
    /\ UNCHANGED <<registryVars, graphVars, config, load, pc, arg, calls, stats, queue, enqueued, sender,
                   waited, sinceFlush, dpc, now, accepted, levelVars>>

\* a worker that never flushes on a timeout
\* (what a durability claim has to tell from WorkerTimeout)
WorkerTimeoutNoFlush ==
    /\ wpc = "recv"
    /\ queue = <<>>
    /\ sender = "open"
    /\ waited >= FLUSH_INTERVAL
    /\ UNCHANGED <<fileVars, sinceFlush>>
    /\ waited' = 0
    /\ UNCHANGED <<registryVars, graphVars, config, load, pc, arg, calls, stats, queue, enqueued, sender,
                   wpc, wmsg, dpc, now, accepted, levelVars>>

\* recv_timeout returns Err(Timeout): flush if FLUSH_INTERVAL has elapsed
\* since last_flush
WorkerTimeout ==
    /\ wpc = "recv"
    /\ queue = <<>>
    /\ sender = "open"
    /\ waited >= FLUSH_INTERVAL
    /\ IF sinceFlush >= FLUSH_INTERVAL
       THEN /\ Put("async", FileWriter_flush(St("async"), now))
            /\ sinceFlush' = 0
       ELSE UNCHANGED <<fileVars, sinceFlush>>
    /\ waited' = 0
    /\ UNCHANGED <<registryVars, graphVars, config, load, pc, arg, calls, stats, queue, enqueued, sender,
                   wpc, wmsg, dpc, now, accepted, levelVars>>

\* recv_timeout returns Err(Disconnected), which it does once the sender is
\* dropped and the queue is empty: flush, leave the loop; the thread ends
\* and its writer is dropped
WorkerDisconnected ==
    /\ wpc = "recv"
    /\ queue = <<>>
    /\ sender = "dropped"
    /\ Put("async", FileWriter_drop(FileWriter_flush(St("async"), now), now))
    /\ wpc' = "exit"
    /\ UNCHANGED <<registryVars, graphVars, config, load, pc, arg, calls, stats, queue, enqueued, sender,
                   wmsg, waited, sinceFlush, dpc, now, accepted, levelVars>>

Worker == WorkerRecv \/ WorkerWrite \/ WorkerTimeout \/ WorkerDisconnected

\* time passes for the worker: half a FLUSH_INTERVAL at a time
Tick ==
    /\ wpc \in {"recv", "write"}
    /\ waited < FLUSH_INTERVAL \/ sinceFlush < FLUSH_INTERVAL
    /\ waited' = IF wpc = "recv"
                 THEN Min(waited + FLUSH_INTERVAL \div 2, FLUSH_INTERVAL)
                 ELSE waited
    /\ sinceFlush' = Min(sinceFlush + FLUSH_INTERVAL \div 2, FLUSH_INTERVAL)
    /\ UNCHANGED <<registryVars, graphVars, config, load, pc, arg, calls, stats, queue, enqueued, sender,
                   wpc, wmsg, dpc, fileVars, now, accepted, levelVars>>

----------------------------------------------------------------------------
(* impl Drop for LoggerInstance, then the fields in declaration order:     *)
(* config, writer, async_sender, _async_handle (detached, not joined),     *)
(* stats. The last reference goes when no thread is inside a call.         *)

\* drop(): let _ = self.flush()
DropFlush ==
    /\ dpc = "live"
    /\ \A t \in Threads : pc[t] = "idle"
    /\ IF sender # "none"
       THEN UNCHANGED fileVars
       ELSE Put("sync", FileWriter_flush(St("sync"), now))
    /\ dpc' = "flushed"
    /\ UNCHANGED <<registryVars, graphVars, config, load, pc, arg, calls, stats, queue, enqueued, sender,
                   wpc, wmsg, waited, sinceFlush, now, accepted, levelVars>>

\* the field `writer` is dropped: its FileWriter closes its handle
DropWriter ==
    /\ dpc = "flushed"
    /\ Put("sync", FileWriter_drop(St("sync"), now))
    /\ dpc' = "writer"
    /\ UNCHANGED <<registryVars, graphVars, config, load, pc, arg, calls, stats, queue, enqueued, sender,
                   wpc, wmsg, waited, sinceFlush, now, accepted, levelVars>>

\* the field `async_sender` is dropped (the channel disconnects), the
\* JoinHandle is dropped without join: the drop is complete
DropSender ==
    /\ dpc = "writer"
    /\ sender' = IF sender = "open" THEN "dropped" ELSE sender
    /\ dpc' = "done"
    /\ UNCHANGED <<registryVars, graphVars, config, load, pc, arg, calls, stats, queue, enqueued, wpc, wmsg,
                   waited, sinceFlush, fileVars, now, accepted, levelVars>>

Next ==
    \/ \E t \in Threads : LogCall(t)
    \/ \E t \in Threads : LogFilter(t)
    \/ \E t \in Threads : LogStats(t)
    \/ \E t \in Threads : LogSend(t)
    \/ \E t \in Threads : LogWrite(t)
    \/ \E t \in Threads : Flush(t)
    \/ \E t \in Threads : FlushReturn(t)
    \/ WorkerRecv
    \/ WorkerWrite
    \/ WorkerTimeout
    \/ WorkerDisconnected
    \/ Tick
    \/ DropFlush
    \/ DropWriter
    \/ DropSender

Spec == Init /\ [][Next]_vars

\* the worker is a thread of its own and time passes
SpecLive == Spec /\ WF_vars(Worker) /\ WF_vars(Tick)

SpecFilter == InitFilter /\ [][Next]_vars

\* one caller that logs and flushes, flush_interval 0 or not
FlushFileConfigs ==
    [append : {TRUE}, buffer_size : {BufferSize}, flush_interval : {0, 1000},
     rotation : {[kind |-> "None", max_size |-> 0, keep_files |-> 0]}]

InitFlush ==
    /\ \E a \in BOOLEAN, fcfg \in FlushFileConfigs :
          config = [level |-> "Info", module_filters |-> <<>>,
                    async_enabled |-> a, file |-> fcfg]
    /\ load = [threads |-> {1}, maxCalls |-> MaxCalls,
               levels |-> {"Error", "Debug"}, modules |-> {NoModule}]
    /\ NewInstance
    /\ EmptyGraph

NextFlush ==
    \/ Next
    \/ \E t \in Threads : FlushAgain(t)

SpecFlush == InitFlush /\ [][NextFlush]_vars

----------------------------------------------------------------------------
(* LoggerConfig::validate and LoggerInstance::new, seen from the caller    *)

\* file paths: empty, one that can be opened, one that cannot
Paths == {"", "app.log", "denied.log"}

\* the fields of LoggerConfig that validate and new look at
ValidateConfigs ==
    [console_enabled : BOOLEAN, file_enabled : BOOLEAN, path : Paths,
     async_enabled : BOOLEAN, async_buffer_size : {0, 1000}]

\* LoggerConfig::default()
DefaultConfig ==
    [console_enabled |-> TRUE, file_enabled |-> FALSE, path |-> "app.log",
     async_enabled |-> FALSE, async_buffer_size |-> 1000]

\* a validation that accepts an async queue of capacity 0
\* (what a validation claim has to tell from validate)
validate_any_capacity(cfg) ==
    IF ~cfg.console_enabled /\ ~cfg.file_enabled THEN "Config"
    ELSE IF cfg.file_enabled /\ cfg.path = "" THEN "Config"
    ELSE "Ok"

\* LoggerConfig::validate
validate(cfg) ==
    IF ~cfg.console_enabled /\ ~cfg.file_enabled THEN "Config"
    ELSE IF cfg.file_enabled /\ cfg.path = "" THEN "Config"
    ELSE IF cfg.async_enabled /\ cfg.async_buffer_size = 0 THEN "Config"
    ELSE "Ok"

\* whether FileWriter::new can create and open the file
Openable(path) == path = "app.log"

\* what a call of LoggerInstance::new created before it returned
Created(res, consoles, files, workers) ==
    [res |-> res, consoles |-> consoles, files |-> files, workers |-> workers]

\* LoggerInstance::new: validate, the dispatcher's writers, then in async
\* mode the worker's writers and the worker thread
LoggerInstance_new(cfg) ==
    IF validate(cfg) # "Ok" THEN Created("Config", 0, 0, 0)
    ELSE LET c == IF cfg.console_enabled THEN 1 ELSE 0
             f == IF cfg.file_enabled THEN 1 ELSE 0
         IN  IF cfg.file_enabled /\ ~Openable(cfg.path)
             THEN Created("Io", c, 0, 0)
             ELSE IF cfg.async_enabled
                  THEN Created("Ok", 2 * c, 2 * f, 1)
                  ELSE Created("Ok", c, f, 0)

\* everything but the registry, left alone
QuietDispatcher ==
    /\ config = [level |-> "Info", module_filters |-> <<>>,
                 async_enabled |-> FALSE, file |-> NoFileConfig]
    /\ query = <<>>
    /\ resolved = NotResolved
    /\ fw = [id \in {"sync", "async"} |-> NoWriter]
    /\ fs = [active |-> NoFile, backups |-> [s \in Suffixes |-> NoFile]]
    /\ rotations = 0
    /\ now = 0
    /\ accepted = <<>>

\* SpecNew: threads that construct dispatchers
InitNew == QuietDispatcher /\ IdleDispatcher /\ EmptyGraph

\* LoggerInstance::new(config) called by thread t
New(t) ==
    /\ \E cfg \in ValidateConfigs :
          rres' = [rres EXCEPT ![t] =
                      [n |-> 1, op |-> "new", cfg |-> cfg,
                       out |-> LoggerInstance_new(cfg)]]
    /\ UNCHANGED <<GLOBAL_LOGGER, THREAD_LOCAL_LOGGER, scopes, rpc, graphVars, config, load,
                   dispVars, fileVars, now, accepted, levelVars>>

NextNew == \E t \in 1..NumThreads : New(t)

SpecNew == InitNew /\ [][NextNew]_vars

----------------------------------------------------------------------------
(* The registry: GLOBAL_LOGGER, THREAD_LOCAL_LOGGER, init, current_logger  *)
(* and with_scoped_logger                                                   *)

\* the dispatcher thread t made (LoggerInstance::new) for the scope it
\* enters at nesting depth d
ScopedLogger(t, d) == [id |-> "scoped", thr |-> t, depth |-> d]

\* the configurations init is called with: the default, one without any
\* output, one whose file cannot be opened
InitConfigs ==
    {DefaultConfig,
     [DefaultConfig EXCEPT !.console_enabled = FALSE],
     [DefaultConfig EXCEPT !.file_enabled = TRUE, !.path = "denied.log"]}

\* the instance a call of init constructed: the n-th registry call of
\* thread t, lazy if made by current_logger
Instance(cfg, t, n, lazy) ==
    [id |-> "global", cfg |-> cfg, by |-> <<t, n>>, lazy |-> lazy]

\* the logger of the innermost scope thread t is inside of, if any
EnclosingScope(t) ==
    IF scopes[t] = <<>> THEN None ELSE scopes[t][Len(scopes[t])].logger

InitRegistry == QuietDispatcher /\ IdleDispatcher /\ EmptyGraph

\* init(config): LoggerInstance::new(config)?, then GLOBAL_LOGGER.set
init(t) ==
    /\ rpc[t] = "idle"
    /\ rres[t].n < MaxRegistryCalls
    /\ \E cfg \in InitConfigs :
          LET out == LoggerInstance_new(cfg)
              res == IF out.res # "Ok" THEN out.res
                     ELSE IF GLOBAL_LOGGER = None THEN "Ok"
                     ELSE "AlreadyInitialized"
          IN  /\ GLOBAL_LOGGER' =
                    IF res = "Ok"
                    THEN Instance(cfg, t, rres[t].n + 1, FALSE)
                    ELSE GLOBAL_LOGGER
              /\ rres' = [rres EXCEPT ![t] =
                             [n |-> @.n + 1, op |-> "init", cfg |-> cfg,
                              was_set |-> GLOBAL_LOGGER # None, res |-> res,
                              out |-> out]]
    /\ UNCHANGED <<THREAD_LOCAL_LOGGER, scopes, rpc, graphVars, config, load, dispVars,
                   fileVars, now, accepted, levelVars>>

\* a completed current_logger call of thread t
Lookup(t, res, logger) ==
    [n |-> rres[t].n + 1, op |-> "current_logger", scope |-> EnclosingScope(t),
     res |-> res, logger |-> logger, override |-> THREAD_LOCAL_LOGGER[t],
     via_init |-> rpc[t] = "init_default"]

\* current_logger: the thread-local logger, else the global one, else on
\* to init_default
current_logger(t) ==
    /\ rpc[t] = "idle"
    /\ rres[t].n < MaxRegistryCalls
    /\ IF THREAD_LOCAL_LOGGER[t] # None
       THEN /\ rres' = [rres EXCEPT ![t] = Lookup(t, "Ok", THREAD_LOCAL_LOGGER[t])]
            /\ UNCHANGED rpc
       ELSE IF GLOBAL_LOGGER # None
       THEN /\ rres' = [rres EXCEPT ![t] = Lookup(t, "Ok", GLOBAL_LOGGER)]
            /\ UNCHANGED rpc
       ELSE /\ rpc' = [rpc EXCEPT ![t] = "init_default"]
            /\ UNCHANGED rres
    /\ UNCHANGED <<GLOBAL_LOGGER, THREAD_LOCAL_LOGGER, scopes, graphVars, config, load,
                   dispVars, fileVars, now, accepted, levelVars>>

\* a current_logger that gives up when no logger is installed
\* (what a lazy-initialization claim has to tell from current_logger_init)
current_logger_no_default(t) ==
    /\ rpc[t] = "init_default"
    /\ rres' = [rres EXCEPT ![t] =
                   IF GLOBAL_LOGGER # None
                   THEN Lookup(t, "Ok", GLOBAL_LOGGER)
                   ELSE Lookup(t, "NotInitialized", None)]
    /\ rpc' = [rpc EXCEPT ![t] = "idle"]
    /\ UNCHANGED <<GLOBAL_LOGGER, THREAD_LOCAL_LOGGER, scopes, graphVars, config, load,
                   dispVars, fileVars, now, accepted, levelVars>>

\* a current_logger that does not look again when its init_default() lost
\* to another thread (what a concurrent-initialization claim has to tell
\* from current_logger_init)
current_logger_init_once(t) ==
    /\ rpc[t] = "init_default"
    /\ LET out == LoggerInstance_new(DefaultConfig)
           won == out.res = "Ok" /\ GLOBAL_LOGGER = None
           new == Instance(DefaultConfig, t, rres[t].n + 1, TRUE)
       IN  /\ GLOBAL_LOGGER' = IF won THEN new ELSE GLOBAL_LOGGER
           /\ rres' = [rres EXCEPT ![t] =
                          IF won THEN Lookup(t, "Ok", new)
                          ELSE Lookup(t, "NotInitialized", None)]
    /\ rpc' = [rpc EXCEPT ![t] = "idle"]
    /\ UNCHANGED <<THREAD_LOCAL_LOGGER, scopes, graphVars, config, load, dispVars,
                   fileVars, now, accepted, levelVars>>

\* current_logger, no logger found: init_default(), then GLOBAL_LOGGER.get()
\* whether it succeeded or another thread was first
current_logger_init(t) ==
    /\ rpc[t] = "init_default"
    /\ LET out    == LoggerInstance_new(DefaultConfig)
           global == IF out.res = "Ok" /\ GLOBAL_LOGGER = None
                     THEN Instance(DefaultConfig, t, rres[t].n + 1, TRUE)
                     ELSE GLOBAL_LOGGER
       IN  /\ GLOBAL_LOGGER' = global
           /\ rres' = [rres EXCEPT ![t] =
                          IF global # None
                          THEN Lookup(t, "Ok", global)
                          ELSE Lookup(t, "NotInitialized", None)]
    /\ rpc' = [rpc EXCEPT ![t] = "idle"]
    /\ UNCHANGED <<THREAD_LOCAL_LOGGER, scopes, graphVars, config, load, dispVars,
                   fileVars, now, accepted, levelVars>>

\* with_scoped_logger(logger, f): previous = tl.replace(Some(logger)), then
\* f runs
with_scoped_logger_enter(t) ==
    /\ rpc[t] = "idle"
    /\ Len(scopes[t]) < MaxScopeDepth
    /\ LET logger == ScopedLogger(t, Len(scopes[t]) + 1)
       IN  /\ scopes' = [scopes EXCEPT ![t] =
                            Append(@, [logger |-> logger,
                                       previous |-> THREAD_LOCAL_LOGGER[t]])]
           /\ THREAD_LOCAL_LOGGER' = [THREAD_LOCAL_LOGGER EXCEPT ![t] = logger]
    /\ UNCHANGED <<GLOBAL_LOGGER, rpc, rres, graphVars, config, load, dispVars, fileVars,
                   now, accepted, levelVars>>

\* with_scoped_logger: f has returned, tl.replace(previous)
with_scoped_logger_return(t) ==
    /\ rpc[t] = "idle"
    /\ scopes[t] # <<>>
    /\ THREAD_LOCAL_LOGGER' =
          [THREAD_LOCAL_LOGGER EXCEPT ![t] = scopes[t][Len(scopes[t])].previous]
    /\ scopes' = [scopes EXCEPT ![t] = SubSeq(@, 1, Len(@) - 1)]
    /\ UNCHANGED <<GLOBAL_LOGGER, rpc, rres, graphVars, config, load, dispVars, fileVars,
                   now, accepted, levelVars>>

\* with_scoped_logger: f panics; the unwinding leaves the innermost k frames,
\* up to the catch_unwind that stops it, and runs nothing of what follows
\* f() in them
with_scoped_logger_unwind(t) ==
    /\ rpc[t] = "idle"
    /\ scopes[t] # <<>>
    /\ \E k \in 1..Len(scopes[t]) :
          scopes' = [scopes EXCEPT ![t] = SubSeq(@, 1, Len(@) - k)]
    /\ UNCHANGED <<GLOBAL_LOGGER, THREAD_LOCAL_LOGGER, rpc, rres, graphVars, config, load,
                   dispVars, fileVars, now, accepted, levelVars>>

NextRegistry ==
    \/ \E t \in 1..NumThreads : init(t)
    \/ \E t \in 1..NumThreads : current_logger(t)
    \/ \E t \in 1..NumThreads : current_logger_init(t)
    \/ \E t \in 1..NumThreads : with_scoped_logger_enter(t)
    \/ \E t \in 1..NumThreads : with_scoped_logger_return(t)
    \/ \E t \in 1..NumThreads : with_scoped_logger_unwind(t)

SpecRegistry == InitRegistry /\ [][NextRegistry]_vars

----------------------------------------------------------------------------
(* The writer graph: a MultiWriter and its children                        *)

MaxChildren    == 3   \* children of the MultiWriter (SpecWriters)
MaxGraphWrites == 1   \* writes to the MultiWriter (SpecWriters)

\* the children a MultiWriter is given: a writer that takes every level, or
\* a LevelFilterWriter around one
Children ==
    {[kind |-> "Writer"]} \cup
    {[kind |-> "LevelFilter", min_level |-> l] : l \in {"Error", "Info"}}

\* Writer::should_write: true by default, level <= min_level for a
\* LevelFilterWriter
should_write(w, level) ==
    IF w.kind = "LevelFilter" THEN ~LevelGt(level, w.min_level) ELSE TRUE

\* the children asked to write, one after the other, until one fails; res is
\* 0 for Ok(()), else the child whose Err(e) is returned
\* (what a fail-open claim has to tell from MultiWriter_write)
MultiWriter_write_fail_fast(ws, level, faults) ==
    LET accepting == SelectSeq([i \in 1..Len(ws) |-> i],
                               LAMBDA i : should_write(ws[i], level))
        stop      == IF \E k \in 1..Len(accepting) : accepting[k] \in faults
                     THEN CHOOSE k \in 1..Len(accepting) :
                              /\ accepting[k] \in faults
                              /\ \A j \in 1..(k - 1) : accepting[j] \notin faults
                     ELSE Len(accepting)
        invoked   == SubSeq(accepting, 1, stop)
        errors    == SelectSeq(invoked, LAMBDA i : i \in faults)
    IN  [invoked |-> invoked,
         res |-> IF errors = <<>> THEN 0 ELSE errors[1]]

\* impl Writer for MultiWriter :: write, where the children in `faults`
\* return Err when asked: the children it calls, in order, and its result
\* (0 for Ok(()), else the child whose Err(e) it returns)
MultiWriter_write(ws, level, faults) ==
    LET invoked == SelectSeq([i \in 1..Len(ws) |-> i],
                             LAMBDA i : should_write(ws[i], level))
        errors  == SelectSeq(invoked, LAMBDA i : i \in faults)
    IN  [invoked |-> invoked,
         res |-> IF errors = <<>> THEN 0 ELSE errors[1]]

\* SpecWriters: a MultiWriter of up to MaxChildren children, written to
\* directly
InitWriters ==
    /\ QuietDispatcher
    /\ IdleDispatcher
    /\ writers \in UNION {[1..n -> Children] : n \in 1..MaxChildren}
    /\ FreshGraph

\* multi_writer.write(&record, formatted) while the children in `faults`
\* cannot write
MultiWrite ==
    /\ Len(trace) < MaxGraphWrites
    /\ \E level \in {"Error", "Info"}, faults \in SUBSET (1..Len(writers)) :
          trace' = Append(trace,
                          [op |-> "write", level |-> level, faults |-> faults,
                           out |-> MultiWriter_write(writers, level, faults)])
    /\ UNCHANGED <<registryVars, writers, lock, peer, snapshot, reset_at, config,
                   load, dispVars, fileVars, now, accepted, levelVars>>

NextWriters == MultiWrite

SpecWriters == InitWriters /\ [][NextWriters]_vars

----------------------------------------------------------------------------
(* SpecSync: a synchronous dispatcher whose file writer can fail, with     *)
(* stats(), reset_stats() and a second instance                            *)

MaxStatsCalls == 1   \* reset_stats calls; stats() calls per thread; log
                     \* calls on the second instance (SpecSync);
                     \* update_config calls (SpecReconfig)

\* the children LoggerInstance::new gives the MultiWriter: the console
\* writer if enabled, then the file writer if enabled, which keeps the
\* FileConfig it was created from
WriterGraph(cfg) ==
    (IF cfg.console_enabled THEN <<[kind |-> "Console"]>> ELSE <<>>) \o
    (IF cfg.file_enabled THEN <<[kind |-> "File", config |-> cfg.file]>>
     ELSE <<>>)

\* an error handler that leaves the statistics alone
\* (what an error-count claim has to tell from inspect_err)
inspect_err_uncounted(s, res) == s

\* .inspect_err(|_e| stats.error_count += 1) on the result of the write
inspect_err(s, res) ==
    IF res # 0 THEN [s EXCEPT !.error_count = @ + 1] ELSE s

\* log_with_caller, synchronous: format, writer.lock(), writer.write() on
\* the MultiWriter, the error counted and returned with `?`. The children in
\* `faults` meet an I/O error (only a FileWriter can: ConsoleWriter::write
\* returns Ok(()) always) and leave their file as it was. The handler takes
\* the stats lock, so a failed write waits for it.
LogWriteGraph(t) ==
    /\ pc[t] = "deliver"
    /\ sender = "none"
    /\ \E faults \in SUBSET {i \in 1..Len(writers) : writers[i].kind = "File"} :
          LET out == MultiWriter_write(writers, arg[t].level, faults)
              written == {i \in 1..Len(writers) :
                             /\ \E k \in 1..Len(out.invoked) : out.invoked[k] = i
                             /\ writers[i].kind = "File"
                             /\ i \notin faults}
          IN  /\ out.res # 0 => StatsLockFree
              /\ IF written # {}
                 THEN \E i \in written :
                      \E st \in FileWriter_write(St("sync"), writers[i].config,
                                                 Render(ConfigFormat, arg[t]), now) :
                         Put("sync", st)
                 ELSE UNCHANGED fileVars
              /\ trace' = Append(trace, [op |-> "write", by |-> t,
                                         level |-> arg[t].level,
                                         faults |-> faults, out |-> out])
              /\ stats' = inspect_err(stats, out.res)
              /\ calls' = [calls EXCEPT ![t] =
                              Append(@, Completed(arg[t],
                                         IF out.res = 0 THEN "Ok" ELSE "Io"))]
    /\ pc' = [pc EXCEPT ![t] = "idle"]
    /\ arg' = [arg EXCEPT ![t] = NoRec]
    /\ UNCHANGED <<registryVars, writers, lock, peer, snapshot, reset_at, config,
                   load, queue, enqueued, sender, wpc, wmsg, waited, sinceFlush,
                   dpc, now, accepted, levelVars>>

\* the log calls whose statistics update has happened, at level l: the
\* completed calls that passed the level check and the calls between the
\* update and the delivery
RECURSIVE Counted(_, _)
Counted(l, t) ==
    IF t = 0 THEN 0
    ELSE Counted(l, t - 1)
         + Len(SelectSeq(calls[t],
                         LAMBDA c : /\ c.level = l
                                    /\ ~Filtered(c.level,
                                                 EffectiveFor(config, c.module))))
         + (IF pc[t] = "deliver" /\ arg[t].level = l THEN 1 ELSE 0)

\* reset_stats: self.stats.lock(), and the assignment of the new LoggerStats
\* begins (the fields are written one after the other under the guard)
ResetBegin(t) ==
    /\ pc[t] = "idle"
    /\ t \in load.threads
    /\ reset_at.n < MaxStatsCalls
    /\ StatsLockFree
    /\ stats' = [stats EXCEPT !.total_messages = 0]
    /\ pc' = [pc EXCEPT ![t] = "reset"]
    /\ UNCHANGED <<registryVars, graphVars, config, load, arg, calls, queue,
                   enqueued, sender, wpc, wmsg, waited, sinceFlush, dpc,
                   fileVars, now, accepted, levelVars>>

\* reset_stats: the assignment is complete, the guard is dropped
ResetEnd(t) ==
    /\ pc[t] = "reset"
    /\ stats' = DefaultStats
    /\ reset_at' = [n |-> reset_at.n + 1,
                    counted |-> [l \in LogLevels |-> Counted(l, NumThreads)]]
    /\ pc' = [pc EXCEPT ![t] = "idle"]
    /\ UNCHANGED <<registryVars, writers, lock, trace, peer, snapshot, config,
                   load, arg, calls, queue, enqueued, sender, wpc, wmsg, waited,
                   sinceFlush, dpc, fileVars, now, accepted, levelVars>>

\* stats(): self.stats.lock().clone()
StatsCall(t) ==
    /\ pc[t] = "idle"
    /\ t \in load.threads
    /\ snapshot[t].n < MaxStatsCalls
    /\ StatsLockFree
    /\ snapshot' = [snapshot EXCEPT ![t] =
                       [n |-> @.n + 1, resets |-> reset_at.n, value |-> stats]]
    /\ UNCHANGED <<registryVars, writers, lock, trace, peer, reset_at, config,
                   load, dispVars, fileVars, now, accepted, levelVars>>

\* a log call that passes the level check, on the second instance: its own
\* statistics are updated
PeerLog ==
    /\ peer.total_messages < MaxStatsCalls
    /\ \E level \in load.levels :
          peer' = [peer EXCEPT !.total_messages = @ + 1,
                               !.messages_by_level[level] = @ + 1]
    /\ UNCHANGED <<registryVars, writers, lock, trace, snapshot, reset_at,
                   config, load, dispVars, fileVars, now, accepted, levelVars>>

InitSync ==
    /\ config = [level |-> "Info", module_filters |-> <<>>,
                 async_enabled |-> FALSE, console_enabled |-> TRUE,
                 file_enabled |-> TRUE, file |-> NoFileConfig]
    /\ load = [threads |-> Threads, maxCalls |-> MaxCalls,
               levels |-> {"Error", "Debug"}, modules |-> {NoModule}]
    /\ NewInstance
    /\ writers = WriterGraph(config)
    /\ FreshGraph

NextSync ==
    \/ \E t \in Threads : LogCall(t)
    \/ \E t \in Threads : LogFilter(t)
    \/ \E t \in Threads : LogStats(t)
    \/ \E t \in Threads : LogWriteGraph(t)
    \/ \E t \in Threads : ResetBegin(t)
    \/ \E t \in Threads : ResetEnd(t)
    \/ \E t \in Threads : StatsCall(t)
    \/ PeerLog

SpecSync == InitSync /\ [][NextSync]_vars

----------------------------------------------------------------------------
(* SpecAsync: an asynchronous dispatcher whose worker writes through its   *)
(* own MultiWriter (built from the same configuration), whose file writer  *)
(* can fail and whose console writer can panic                             *)

\* the worker formats and writes through its MultiWriter; the result of the
\* write is tested with is_err() and dropped. In the trace the worker is
\* thread 0.
WorkerWriteGraph ==
    /\ wpc = "write"
    /\ \E faults \in SUBSET {i \in 1..Len(writers) : writers[i].kind = "File"} :
          LET out == MultiWriter_write(writers, wmsg.level, faults)
              written == {i \in 1..Len(writers) :
                             /\ \E k \in 1..Len(out.invoked) : out.invoked[k] = i
                             /\ writers[i].kind = "File"
                             /\ i \notin faults}
          IN  /\ IF written # {}
                 THEN \E i \in written :
                      \E st \in FileWriter_write(St("async"), writers[i].config,
                                                 Render(WorkerFormat, wmsg), now) :
                         Put("async", st)
                 ELSE UNCHANGED fileVars
              /\ trace' = Append(trace, [op |-> "write", by |-> 0,
                                         level |-> wmsg.level,
                                         faults |-> faults, out |-> out])
    /\ wmsg' = NoRec
    /\ wpc' = "recv"
    /\ UNCHANGED <<registryVars, writers, lock, peer, snapshot, reset_at, config,
                   load, pc, arg, calls, stats, queue, enqueued, sender, waited,
                   sinceFlush, dpc, now, accepted, levelVars>>

\* println! inside ConsoleWriter::write panics (stdout cannot be written):
\* the worker thread unwinds and ends, its writers and the Receiver are
\* dropped, and with the Receiver the messages still in the channel
WorkerPanic ==
    /\ wpc = "write"
    /\ \E i \in 1..Len(writers) :
          writers[i].kind = "Console" /\ should_write(writers[i], wmsg.level)
    /\ Put("async", FileWriter_drop(St("async"), now))
    /\ queue' = <<>>
    /\ wmsg' = NoRec
    /\ wpc' = "exit"
    /\ UNCHANGED <<registryVars, graphVars, config, load, pc, arg, calls, stats,
                   enqueued, sender, waited, sinceFlush, dpc, now, accepted,
                   levelVars>>

InitAsync ==
    /\ config = [level |-> "Info", module_filters |-> <<>>,
                 async_enabled |-> TRUE, console_enabled |-> TRUE,
                 file_enabled |-> TRUE, file |-> NoFileConfig]
    /\ load = [threads |-> Threads, maxCalls |-> MaxCalls,
               levels |-> {"Error", "Debug"}, modules |-> {NoModule}]
    /\ NewInstance
    /\ writers = WriterGraph(config)
    /\ FreshGraph

NextAsync ==
    \/ \E t \in Threads : LogCall(t)
    \/ \E t \in Threads : LogFilter(t)
    \/ \E t \in Threads : LogStats(t)
    \/ \E t \in Threads : LogSend(t)
    \/ WorkerRecv
    \/ WorkerWriteGraph
    \/ WorkerPanic

SpecAsync == InitAsync /\ [][NextAsync]_vars

----------------------------------------------------------------------------
(* SpecTime: one FileWriter with daily rotation, whose file can be removed *)
(* from the directory by another process                                   *)

\* FileWriter::should_rotate_by_time for RotationFrequency::Daily: at most
\* one check per ROTATION_CHECK_SECS; a check reads the modification time
\* of the file at current_path (the `?` returns the I/O error when there is
\* no such file) and compares the dates
should_rotate_by_time(st, t) ==
    IF t - st.w.last_rotation_check < ROTATION_CHECK_SECS
    THEN [st |-> st, res |-> "false"]
    ELSE LET checked == [st EXCEPT !.w.last_rotation_check = t]
         IN  IF ~st.fs.active.exists
             THEN [st |-> checked, res |-> "Io"]
             ELSE [st |-> checked,
                   res |-> IF t \div SecondsPerDay
                                  # st.fs.active.mtime \div SecondsPerDay
                           THEN "true" ELSE "false"]

\* impl Writer for FileWriter :: write with RotationConfig::Time: the
\* possible outcomes, each with its result. check_and_rotate()? returns the
\* error of the check; after the check the line is written as by a write
\* that has no rotation to consider.
FileWriter_write_timed(st, fcfg, line, t) ==
    LET check == should_rotate_by_time(st, t)
        norot == [fcfg EXCEPT !.rotation.kind = "None"]
    IN  IF check.res = "Io" THEN {[st |-> check.st, res |-> "Io"]}
        ELSE {[st |-> s2, res |-> "Ok"] :
                 s2 \in UNION {FileWriter_write(s1, norot, line, t) :
                                  s1 \in IF check.res = "true"
                                         THEN rotate_file(check.st, fcfg, t)
                                         ELSE {check.st}}}

InitTime ==
    /\ \E fi \in {0, 1000}, k \in 0..1 :
          /\ config = [level |-> "Info", module_filters |-> <<>>,
                       async_enabled |-> FALSE,
                       file |-> [append |-> TRUE, buffer_size |-> BufferSize,
                                 flush_interval |-> fi,
                                 rotation |-> [kind |-> "Time",
                                               frequency |-> "Daily",
                                               max_size |-> 0,
                                               keep_files |-> k]]]
          /\ LET st == FileWriter_new(config.file, 0)
             IN  /\ fw = [id \in {"sync", "async"} |->
                             IF id = "sync"
                             THEN [open |-> TRUE, buf |-> <<>>,
                                   current_size |-> st.w.current_size,
                                   last_rotation_check |-> 0]
                             ELSE NoWriter]
                 /\ fs = st.fs
                 /\ rotations = st.rot
    /\ now = 0
    /\ accepted = <<>>
    /\ query = <<>>
    /\ resolved = NotResolved
    /\ IdleDispatcher
    /\ EmptyGraph

\* writer.write(&record, formatted) on the FileWriter
TimedWrite ==
    /\ Len(trace) < MaxWrites
    /\ \E len \in 1..MaxLineLen :
          LET line == [rec |-> Len(trace) + 1, len |-> len]
          IN  \E o \in FileWriter_write_timed(St("sync"), config.file, line, now) :
                 /\ Put("sync", o.st)
                 /\ trace' = Append(trace,
                        [op |-> "write", at |-> now,
                         due |-> now - fw["sync"].last_rotation_check
                                     >= ROTATION_CHECK_SECS,
                         missing |-> ~fs.active.exists,
                         res |-> o.res])
                 /\ accepted' = IF o.res = "Ok" THEN Append(accepted, line)
                                ELSE accepted
    /\ UNCHANGED <<registryVars, writers, lock, peer, snapshot, reset_at, config,
                   load, dispVars, now, levelVars>>

\* another process removes the log file from the directory (the writer's
\* handle stays open)
Unlink ==
    /\ fs.active.exists
    /\ fs' = [fs EXCEPT !.active = NoFile]
    /\ UNCHANGED <<registryVars, graphVars, config, load, dispVars, fw, rotations,
                   now, accepted, levelVars>>

\* half a minute passes, or a day; at most three half minutes in a day
TimePasses ==
    /\ \E d \in {ROTATION_CHECK_SECS \div 2, SecondsPerDay} :
          /\ now + d < (MaxTime + 1) * SecondsPerDay
          /\ (now + d) % SecondsPerDay < 2 * ROTATION_CHECK_SECS
          /\ now' = now + d
    /\ UNCHANGED <<registryVars, graphVars, config, load, dispVars, fileVars,
                   accepted, levelVars>>

NextTime == TimedWrite \/ Unlink \/ TimePasses

SpecTime == InitTime /\ [][NextTime]_vars

----------------------------------------------------------------------------
(* SpecReconfig: a synchronous dispatcher whose configuration is replaced  *)
(* with update_config while a thread logs                                  *)

\* the configurations update_config is called with
UpdateConfigs ==
    {[level |-> l, module_filters |-> <<>>, async_enabled |-> FALSE,
      async_buffer_size |-> 1000, console_enabled |-> c, file_enabled |-> f,
      path |-> "app.log",
      file |-> [NoFileConfig EXCEPT !.flush_interval = fi]] :
        l \in {"Info", "Debug"}, c \in BOOLEAN, f \in BOOLEAN, fi \in {0, 1000}}

\* update_config(new_config): new_config.validate()?, then the stored
\* configuration is replaced under the write lock; the writers stay
update_config(t) ==
    /\ pc[t] = "idle"
    /\ t \in load.threads
    /\ Cardinality({k \in 1..Len(trace) : trace[k].op = "update_config"})
           < MaxStatsCalls
    /\ \E new_config \in UpdateConfigs :
          LET res == validate(new_config)
          IN  /\ config' = IF res = "Ok" THEN new_config ELSE config
              /\ trace' = Append(trace, [op |-> "update_config", by |-> t,
                                         new_config |-> new_config, res |-> res])
    /\ UNCHANGED <<registryVars, writers, lock, peer, snapshot, reset_at, load,
                   dispVars, fileVars, now, accepted, levelVars>>

InitReconfig ==
    /\ config = [level |-> "Info", module_filters |-> <<>>,
                 async_enabled |-> FALSE, async_buffer_size |-> 1000,
                 console_enabled |-> TRUE, file_enabled |-> TRUE,
                 path |-> "app.log", file |-> NoFileConfig]
    /\ load = [threads |-> {1}, maxCalls |-> MaxCalls,
               levels |-> {"Error", "Debug"}, modules |-> {NoModule}]
    /\ NewInstance
    /\ writers = WriterGraph(config)
    /\ FreshGraph

NextReconfig ==
    \/ \E t \in Threads : LogCall(t)
    \/ \E t \in Threads : LogFilter(t)
    \/ \E t \in Threads : LogStats(t)
    \/ \E t \in Threads : LogWriteGraph(t)
    \/ \E t \in Threads : update_config(t)

SpecReconfig == InitReconfig /\ [][NextReconfig]_vars

----------------------------------------------------------------------------
(* SpecLock: synchronous writes of concurrent callers, step by step: the   *)
(* Mutex around the writer, the rotation (close, then rename and reopen),  *)
(* the line's text, its newline                                            *)

\* a writer.lock() that returns the guard while another thread holds it
\* (what a mutual-exclusion claim has to tell from WriterLock)
WriterLockUnchecked(t) ==
    /\ pc[t] = "deliver"
    /\ sender = "none"
    /\ lock' = t
    /\ pc' = [pc EXCEPT ![t] = "locked"]
    /\ UNCHANGED <<registryVars, writers, trace, peer, snapshot, reset_at, config,
                   load, arg, calls, stats, queue, enqueued, sender, wpc, wmsg,
                   waited, sinceFlush, dpc, fileVars, now, accepted, levelVars>>

\* log_with_caller, synchronous: self.writer.lock() returns the guard once
\* no other thread holds it
WriterLock(t) ==
    /\ pc[t] = "deliver"
    /\ sender = "none"
    /\ lock = 0
    /\ lock' = t
    /\ pc' = [pc EXCEPT ![t] = "locked"]
    /\ UNCHANGED <<registryVars, writers, trace, peer, snapshot, reset_at, config,
                   load, arg, calls, stats, queue, enqueued, sender, wpc, wmsg,
                   waited, sinceFlush, dpc, fileVars, now, accepted, levelVars>>

\* FileWriter::write: check_and_rotate decides; rotate_file begins with the
\* flush and `self.writer = None`, which closes the file
CheckAndRotate(t) ==
    /\ pc[t] = "locked"
    /\ IF should_rotate(St("sync"), config.file)
       THEN /\ Put("sync", [BufFlush(St("sync"), now) EXCEPT !.w.open = FALSE])
            /\ trace' = Append(trace, [op |-> "close", by |-> t])
            /\ pc' = [pc EXCEPT ![t] = "closed"]
       ELSE /\ UNCHANGED <<fileVars, trace>>
            /\ pc' = [pc EXCEPT ![t] = "open"]
    /\ UNCHANGED <<registryVars, writers, lock, peer, snapshot, reset_at, config,
                   load, arg, calls, stats, queue, enqueued, sender, wpc, wmsg,
                   waited, sinceFlush, dpc, now, accepted, levelVars>>

\* rotate_file goes on: rename, cleanup_old_backups, open_file
Reopen(t) ==
    /\ pc[t] = "closed"
    /\ \E st \in rotate_file(St("sync"), config.file, now) : Put("sync", st)
    /\ trace' = Append(trace, [op |-> "reopen", by |-> t])
    /\ pc' = [pc EXCEPT ![t] = "open"]
    /\ UNCHANGED <<registryVars, writers, lock, peer, snapshot, reset_at, config,
                   load, arg, calls, stats, queue, enqueued, sender, wpc, wmsg,
                   waited, sinceFlush, dpc, now, accepted, levelVars>>

\* writeln!(writer, "{}", formatted): the text of the line
WriteText(t) ==
    /\ pc[t] = "open"
    /\ trace' = Append(trace, [op |-> "text", by |-> t])
    /\ pc' = [pc EXCEPT ![t] = "text"]
    /\ UNCHANGED <<registryVars, writers, lock, peer, snapshot, reset_at, config,
                   load, arg, calls, stats, queue, enqueued, sender, wpc, wmsg,
                   waited, sinceFlush, dpc, fileVars, now, accepted, levelVars>>

\* writeln!: the newline, which completes the line; current_size, the flush
\* if flush_interval is 0; write returns, the guard is dropped, the call
\* returns Ok
WriteNewline(t) ==
    /\ pc[t] = "text"
    /\ LET st   == St("sync")
           line == Render(ConfigFormat, arg[t])
           wr   == IF st.w.open
                   THEN [BufWrite(st, line, now, config.file.buffer_size) EXCEPT
                            !.w.current_size = @ + LineBytes(line)]
                   ELSE st
       IN  Put("sync", IF st.w.open /\ config.file.flush_interval = 0
                       THEN BufFlush(wr, now) ELSE wr)
    /\ trace' = Append(trace, [op |-> "newline", by |-> t])
    /\ lock' = IF lock = t THEN 0 ELSE lock
    /\ calls' = [calls EXCEPT ![t] = Append(@, Completed(arg[t], "Ok"))]
    /\ pc' = [pc EXCEPT ![t] = "idle"]
    /\ arg' = [arg EXCEPT ![t] = NoRec]
    /\ UNCHANGED <<registryVars, writers, peer, snapshot, reset_at, config, load,
                   stats, queue, enqueued, sender, wpc, wmsg, waited, sinceFlush,
                   dpc, now, accepted, levelVars>>

InitLock ==
    /\ \E fi \in {0, 1000} :
          config = [level |-> "Info", module_filters |-> <<>>,
                    async_enabled |-> FALSE, console_enabled |-> FALSE,
                    file_enabled |-> TRUE,
                    file |-> [append |-> TRUE, buffer_size |-> BufferSize,
                              flush_interval |-> fi,
                              rotation |-> [kind |-> "Size", max_size |-> 1,
                                            keep_files |-> 0]]]
    /\ load = [threads |-> Threads, maxCalls |-> MaxCalls,
               levels |-> {"Error"}, modules |-> {NoModule}]
    /\ NewInstance
    /\ writers = WriterGraph(config)
    /\ FreshGraph

NextLock ==
    \/ \E t \in Threads : LogCall(t)
    \/ \E t \in Threads : LogFilter(t)
    \/ \E t \in Threads : LogStats(t)
    \/ \E t \in Threads : WriterLock(t)
    \/ \E t \in Threads : CheckAndRotate(t)
    \/ \E t \in Threads : Reopen(t)
    \/ \E t \in Threads : WriteText(t)
    \/ \E t \in Threads : WriteNewline(t)

SpecLock == InitLock /\ [][NextLock]_vars

----------------------------------------------------------------------------
(* SpecFormat: one caller of a dispatcher whose configuration names the    *)
(* output format and include_caller                                        *)

InitFormat ==
    /\ \E f \in {"Text", "Json"}, ic \in BOOLEAN, a \in BOOLEAN :
          config = [level |-> "Info", module_filters |-> <<>>,
                    async_enabled |-> a, file |-> NoFileConfig,
                    format |-> f, include_caller |-> ic]
    /\ load = [threads |-> {1}, maxCalls |-> MaxCalls,
               levels |-> {"Error"}, modules |-> {NoModule}]
    /\ NewInstance
    /\ EmptyGraph

SpecFormat == InitFormat /\ [][Next]_vars

----------------------------------------------------------------------------
(* SpecSize: one FileWriter opened on a log file that a previous run may   *)
(* have left, with any max_size a RotationConfig::Size can hold            *)

SizeConfigs ==
    [append : {TRUE}, buffer_size : {BufferSize}, flush_interval : {0, 1000},
     rotation : [kind : {"None", "Size"}, max_size : 0..MaxSize,
                 keep_files : {MaxKeep}]]

\* what the previous run left at the configured path
LeftBehind ==
    {NoFile} \cup
    {[EmptyFile(0) EXCEPT !.lines = [i \in 1..n |-> [rec |-> 0, len |-> MaxLineLen]]]
     : n \in 0..MaxLeft}

InitSize ==
    /\ \E fcfg \in SizeConfigs, left \in LeftBehind :
          /\ config = [level |-> "Info", module_filters |-> <<>>,
                       async_enabled |-> FALSE, file |-> fcfg]
          /\ LET st == open_file([w |-> NoWriter,
                                  fs |-> [active |-> left,
                                          backups |-> [s \in Suffixes |-> NoFile]],
                                  rot |-> 0], fcfg, 0)
             IN  /\ fw = [id \in {"sync", "async"} |->
                             IF id = "sync" THEN st.w ELSE NoWriter]
                 /\ fs = st.fs
                 /\ rotations = st.rot
    /\ now = 0
    /\ accepted = <<>>
    /\ query = <<>>
    /\ resolved = "-"
    /\ IdleDispatcher
    /\ EmptyGraph

SpecSize == InitSize /\ [][NextFile]_vars

----------------------------------------------------------------------------
(* SpecQueue: the asynchronous dispatcher with a configured queue capacity *)

InitQueue ==
    /\ \E n \in 1..MaxCapacity :
          config = [level |-> "Info", module_filters |-> <<>>,
                    async_enabled |-> TRUE, async_buffer_size |-> n,
                    console_enabled |-> TRUE, file_enabled |-> TRUE,
                    file |-> NoFileConfig]
    /\ validate(config @@ [path |-> "app.log"]) = "Ok"
    /\ load = [threads |-> Threads, maxCalls |-> MaxCalls,
               levels |-> {"Error", "Debug"}, modules |-> {NoModule}]
    /\ NewInstance
    /\ writers = WriterGraph(config)
    /\ FreshGraph

SpecQueue == InitQueue /\ [][NextAsync]_vars

----------------------------------------------------------------------------
(* SpecBuffered: a BufferedWriter around a FileWriter that does not flush  *)
(* on its own; the clock counts milliseconds                               *)

\* BufferedWriter::new(inner, flush_interval) at time t
BufferedWriter_new(flush_interval, t) ==
    [kind |-> "Buffered", flush_interval |-> flush_interval, last_flush |-> t]

\* BufferedWriter::check_and_flush at time t, on the decorator bw and its
\* inner writer st
check_and_flush(bw, st, t) ==
    IF bw.flush_interval = 0
    THEN [bw |-> bw, st |-> st, flushed |-> FALSE]
    ELSE IF t - bw.last_flush >= bw.flush_interval
         THEN [bw |-> [bw EXCEPT !.last_flush = t],
               st |-> FileWriter_flush(st, t), flushed |-> TRUE]
         ELSE [bw |-> bw, st |-> st, flushed |-> FALSE]

\* impl Writer for BufferedWriter :: write: the possible outcomes
BufferedWriter_write(bw, st, fcfg, line, t) ==
    {check_and_flush(bw, s, t) : s \in FileWriter_write(st, fcfg, line, t)}

\* impl Writer for BufferedWriter :: flush
BufferedWriter_flush(bw, st, t) ==
    [bw |-> bw, st |-> FileWriter_flush(st, t), flushed |-> TRUE]

InitBuffered ==
    /\ config = [level |-> "Info", module_filters |-> <<>>,
                 async_enabled |-> FALSE, file |-> NoFileConfig]
    /\ LET st == FileWriter_new(config.file, 0)
       IN  /\ fw = [id \in {"sync", "async"} |->
                       IF id = "sync" THEN st.w ELSE NoWriter]
           /\ fs = st.fs
           /\ rotations = st.rot
    /\ \E i \in 0..MaxInterval : writers = <<BufferedWriter_new(i, 0)>>
    /\ now = 0
    /\ accepted = <<>>
    /\ query = <<>>
    /\ resolved = "-"
    /\ IdleDispatcher
    /\ FreshGraph

\* writer.write(&record, formatted) on the BufferedWriter
BufferedWrite ==
    /\ Len(accepted) < MaxWrites
    /\ LET line == [rec |-> Len(accepted) + 1, len |-> 1]
       IN  /\ \E out \in BufferedWriter_write(writers[1], St("sync"),
                                              config.file, line, now) :
                 /\ Put("sync", out.st)
                 /\ writers' = <<out.bw>>
                 /\ trace' = Append(trace, [op |-> "write", at |-> now,
                                            flushed |-> out.flushed])
           /\ accepted' = Append(accepted, line)
    /\ UNCHANGED <<registryVars, lock, peer, snapshot, reset_at, config, load,
                   dispVars, now, levelVars>>

\* writer.flush() on the BufferedWriter
BufferedFlush ==
    /\ Cardinality({k \in 1..Len(trace) : trace[k].op = "flush"}) < MaxFlushes
    /\ LET out == BufferedWriter_flush(writers[1], St("sync"), now)
       IN  /\ Put("sync", out.st)
           /\ writers' = <<out.bw>>
           /\ trace' = Append(trace, [op |-> "flush", at |-> now,
                                      flushed |-> out.flushed])
    /\ UNCHANGED <<registryVars, lock, peer, snapshot, reset_at, config, load,
                   dispVars, now, accepted, levelVars>>

\* a millisecond passes
MilliPasses ==
    /\ now < MaxMillis
    /\ now' = now + 1
    /\ UNCHANGED <<registryVars, graphVars, config, load, dispVars, fileVars,
                   accepted, levelVars>>

NextBuffered == BufferedWrite \/ BufferedFlush \/ MilliPasses

SpecBuffered == InitBuffered /\ [][NextBuffered]_vars

----------------------------------------------------------------------------
(* SpecFault: one FileWriter with size-based rotation whose rotations can  *)
(* fail with an I/O error, at the rename or at the reopening               *)

RotationFaults == {"none", "rename", "open"}

\* FileWriter::rotate_file when the step named by fault returns an error:
\* the possible outcomes. The handle is given up before anything can fail;
\* a failed rename leaves the counter, a failed open_file leaves it at 0
rotate_file_io(st, fcfg, t, fault) ==
    LET closed == [BufFlush(st, t) EXCEPT !.w.open = FALSE]
        moved  == IF closed.fs.active.exists
                  THEN [closed EXCEPT
                           !.fs.backups[RotationSuffix(fcfg, t)] = closed.fs.active,
                           !.fs.active = NoFile]
                  ELSE closed
    IN  IF fault = "rename" /\ closed.fs.active.exists
        THEN {[st |-> closed, res |-> "Io"]}
        ELSE IF fault = "open"
        THEN {[st |-> [s EXCEPT !.w.current_size = 0], res |-> "Io"]
              : s \in cleanup_old_backups(moved, fcfg.rotation.keep_files)}
        ELSE {[st |-> s, res |-> "Ok"] : s \in rotate_file(st, fcfg, t)}

\* the rest of FileWriter::write once check_and_rotate has returned Ok:
\* with a handle the line is written, without one nothing is, and Ok(())
\* is returned either way
write_line(s, fcfg, line, t) ==
    IF s.w.open
    THEN LET wr == [BufWrite(s, line, t, fcfg.buffer_size) EXCEPT
                       !.w.current_size = @ + LineBytes(line)]
         IN  [st |-> IF fcfg.flush_interval = 0 THEN BufFlush(wr, t) ELSE wr,
              res |-> "Ok", appended |-> TRUE]
    ELSE [st |-> s, res |-> "Ok", appended |-> FALSE]

\* impl Writer for FileWriter :: write when a rotation it starts may fail
FileWriter_write_io(st, fcfg, line, t, fault) ==
    IF should_rotate(st, fcfg)
    THEN {IF r.res = "Ok" THEN write_line(r.st, fcfg, line, t)
          ELSE [st |-> r.st, res |-> r.res, appended |-> FALSE]
          : r \in rotate_file_io(st, fcfg, t, fault)}
    ELSE {write_line(st, fcfg, line, t)}

FaultConfigs ==
    [append : {TRUE}, buffer_size : {BufferSize}, flush_interval : {0, 1000},
     rotation : [kind : {"Size"}, max_size : 1..MaxFaultSize,
                 keep_files : {MaxKeep}]]

InitFault ==
    /\ \E fcfg \in FaultConfigs :
          /\ config = [level |-> "Info", module_filters |-> <<>>,
                       async_enabled |-> FALSE, file |-> fcfg]
          /\ LET st == FileWriter_new(fcfg, 0)
             IN  /\ fw = [id \in {"sync", "async"} |->
                             IF id = "sync" THEN st.w ELSE NoWriter]
                 /\ fs = st.fs
                 /\ rotations = st.rot
    /\ now = 0
    /\ accepted = <<>>
    /\ query = <<>>
    /\ resolved = "-"
    /\ IdleDispatcher
    /\ EmptyGraph

\* writer.write(&record, formatted) on the FileWriter
FaultyWrite ==
    /\ Len(accepted) < MaxWrites
    /\ \E len \in 1..MaxLineLen, fault \in RotationFaults :
          LET line == [rec |-> Len(accepted) + 1, len |-> len]
          IN  /\ \E out \in FileWriter_write_io(St("sync"), config.file,
                                                line, now, fault) :
                    /\ Put("sync", out.st)
                    /\ trace' = Append(trace, [op |-> "write", res |-> out.res,
                                               appended |-> out.appended])
              /\ accepted' = Append(accepted, line)
    /\ UNCHANGED <<registryVars, writers, lock, peer, snapshot, reset_at,
                   config, load, dispVars, now, levelVars>>

NextFault == FaultyWrite \/ FileFlush \/ ClockTick

SpecFault == InitFault /\ [][NextFault]_vars

----------------------------------------------------------------------------
(* SpecMidnight: one FileWriter with daily rotation, created half a minute *)
(* before midnight                                                         *)

InitMidnight ==
    /\ \E fi \in {0, 1000}, k \in 0..1 :
          /\ config = [level |-> "Info", module_filters |-> <<>>,
                       async_enabled |-> FALSE,
                       file |-> [append |-> TRUE, buffer_size |-> BufferSize,
                                 flush_interval |-> fi,
                                 rotation |-> [kind |-> "Time",
                                               frequency |-> "Daily",
                                               max_size |-> 0,
                                               keep_files |-> k]]]
          /\ now = SecondsPerDay - ROTATION_CHECK_SECS \div 2
          /\ LET st == FileWriter_new(config.file, now)
             IN  /\ fw = [id \in {"sync", "async"} |->
                             IF id = "sync"
                             THEN [open |-> TRUE, buf |-> <<>>,
                                   current_size |-> st.w.current_size,
                                   last_rotation_check |-> now]
                             ELSE NoWriter]
                 /\ fs = st.fs
                 /\ rotations = st.rot
    /\ accepted = <<>>
    /\ query = <<>>
    /\ resolved = NotResolved
    /\ IdleDispatcher
    /\ EmptyGraph

SpecMidnight == InitMidnight /\ [][NextTime]_vars

----------------------------------------------------------------------------
(* SpecOrder: the locks of one LoggerInstance (config: RwLock, writer and  *)
(* stats: Mutex) as its methods take and give them back. pc[t] is the      *)
(* method thread t is in, arg[t] the instruction it is at.                 *)

Acquire(l, mode) == [do |-> "acquire", l |-> l, mode |-> mode, to |-> 0]
Release(l)       == [do |-> "release", l |-> l, mode |-> "-", to |-> 0]
\* a point where the method either goes on or goes to instruction `to`
\* (0: returns, which drops every guard it holds)
Branch(what, to) == [do |-> what, l |-> "-", mode |-> "-", to |-> to]

\* log_with_caller, synchronous delivery
LogCode ==
    << Acquire("config", "read"),     \* let config = self.config.read()
       Branch("filter", 0),           \* level > effective_level: return Ok
       Acquire("stats", "lock"),      \* let mut stats = self.stats.lock()
       Release("stats"),              \* counters updated, end of the block
       Release("config"),             \* drop(config)
       Acquire("config", "read"),     \* let config = self.config.read()
       Release("config"),             \* formatted; drop(config)
       Acquire("writer", "lock"),     \* let mut writer = self.writer.lock()
       Branch("write", 12),           \* writer.write: Ok goes to the end
       Acquire("stats", "lock"),      \* inspect_err: self.stats.lock()
       Release("stats"),              \* error_count += 1
       Release("writer") >>           \* return

\* log_with_caller, asynchronous delivery
LogAsyncCode ==
    << Acquire("config", "read"),
       Branch("filter", 0),
       Acquire("stats", "lock"),
       Release("stats"),
       Release("config"),
       Branch("send", 0),             \* sender.send: Ok returns
       Acquire("stats", "lock"),      \* map_err: self.stats.lock()
       Release("stats") >>

\* flush, synchronous (asynchronous: returns at once)
FlushCode ==
    << Acquire("writer", "lock"), Branch("flush", 3), Release("writer") >>

\* config()
ConfigCode == << Acquire("config", "read"), Release("config") >>

\* update_config
UpdateConfigCode ==
    << Branch("validate", 0),         \* new_config.validate()?
       Acquire("config", "write"),    \* *self.config.write() = new_config
       Release("config") >>

\* stats()
StatsCode == << Acquire("stats", "lock"), Release("stats") >>

\* a reset_stats that flushes the writers while it holds the statistics
\* (what a lock-order claim has to tell from ResetStatsCode)
ResetStatsFlushing ==
    << Acquire("stats", "lock"), Acquire("writer", "lock"),
       Branch("flush", 4), Release("writer"), Release("stats") >>

\* reset_stats
ResetStatsCode == << Acquire("stats", "lock"), Release("stats") >>

Methods == {"log", "flush", "config", "update_config", "stats", "reset_stats"}

Code(method) ==
    CASE method = "log" ->
             IF config.async_enabled THEN LogAsyncCode ELSE LogCode
      [] method = "flush" ->
             IF config.async_enabled THEN <<>> ELSE FlushCode
      [] method = "config" -> ConfigCode
      [] method = "update_config" -> UpdateConfigCode
      [] method = "stats" -> StatsCode
      [] method = "reset_stats" -> ResetStatsCode

NoLocks == [readers |-> {}, config |-> 0, writer |-> 0, stats |-> 0]

\* the locks thread t holds
Holds(t) ==
    {l \in {"config", "writer", "stats"} :
        \/ lock[l] = t
        \/ l = "config" /\ t \in lock.readers}

InCall(t) == pc[t] # "idle" /\ arg[t] <= Len(Code(pc[t]))

\* the instruction thread t is at
Ins(t) == Code(pc[t])[arg[t]]

\* the lock thread t is about to acquire
Wants(t) ==
    IF InCall(t) /\ Ins(t).do = "acquire" THEN Ins(t).l ELSE "none"

\* whether the lock lets thread t have what its instruction asks for.
\* parking_lot: a Mutex is free or not; an RwLock gives a read guard unless
\* a writer holds it, and a write guard when nobody holds it
Grants(t) ==
    LET i == Ins(t)
    IN  IF i.do # "acquire" THEN TRUE
        ELSE IF i.l # "config" THEN lock[i.l] = 0
        ELSE IF i.mode = "read" THEN lock.config = 0
        ELSE lock.config = 0 /\ lock.readers = {}

\* the same when the RwLock holds new readers back while a writer waits
\* (parking_lot does so to keep writers from starving)
GrantsFair(t) ==
    /\ Grants(t)
    /\ (Ins(t).do = "acquire" /\ Ins(t).l = "config" /\ Ins(t).mode = "read")
          => ~\E u \in Threads \ {t} :
                 InCall(u) /\ Wants(u) = "config" /\ Ins(u).mode = "write"

\* the locks once thread t holds, or no longer holds, lock l
Taken(t, l, mode) ==
    IF l = "config" /\ mode = "read"
    THEN [lock EXCEPT !.readers = @ \cup {t}]
    ELSE [lock EXCEPT ![l] = t]

Given(t, l) ==
    IF l = "config"
    THEN [lock EXCEPT !.readers = @ \ {t},
                      !.config = IF @ = t THEN 0 ELSE @]
    ELSE [lock EXCEPT ![l] = 0]

\* every guard of thread t dropped
Dropped(t) ==
    [readers |-> lock.readers \ {t},
     config  |-> IF lock.config = t THEN 0 ELSE lock.config,
     writer  |-> IF lock.writer = t THEN 0 ELSE lock.writer,
     stats   |-> IF lock.stats = t THEN 0 ELSE lock.stats]

InitOrder ==
    /\ \E a \in BOOLEAN :
          config = [level |-> "Info", module_filters |-> <<>>,
                    async_enabled |-> a, file |-> NoFileConfig]
    /\ fw = [id \in {"sync", "async"} |-> NoWriter]
    /\ fs = [active |-> NoFile, backups |-> [s \in Suffixes |-> NoFile]]
    /\ rotations = 0
    /\ now = 0
    /\ accepted = <<>>
    /\ query = <<>>
    /\ resolved = NotResolved
    /\ load = NoLoad
    /\ pc = [t \in 1..NumThreads |-> "idle"]
    /\ arg = [t \in 1..NumThreads |-> 1]
    /\ calls = [t \in 1..NumThreads |-> <<>>]
    /\ stats = DefaultStats
    /\ queue = <<>>
    /\ enqueued = <<>>
    /\ sender = "none"
    /\ wpc = "none"
    /\ wmsg = NoRec
    /\ waited = 0
    /\ sinceFlush = 0
    /\ dpc = "live"
    /\ EmptyRegistry
    /\ writers = <<>>
    /\ lock = NoLocks
    /\ trace = <<>>
    /\ peer = DefaultStats
    /\ snapshot = [t \in 1..NumThreads |-> NoSnapshot]
    /\ reset_at = [n |-> 0, counted |-> [l \in LogLevels |-> 0]]

\* thread t calls a method of the instance
Call(t) ==
    /\ pc[t] = "idle"
    /\ Len(calls[t]) < MaxLockCalls
    /\ \E m \in Methods : pc' = [pc EXCEPT ![t] = m]
    /\ arg' = [arg EXCEPT ![t] = 1]
    /\ UNCHANGED <<registryVars, graphVars, config, load, calls, stats, queue,
                   enqueued, sender, wpc, wmsg, waited, sinceFlush, dpc,
                   fileVars, now, accepted, levelVars>>

\* thread t executes the instruction it is at
Step(t) ==
    /\ InCall(t)
    /\ Grants(t)
    /\ LET i == Ins(t)
       IN  \/ /\ i.do = "acquire"
              /\ lock' = Taken(t, i.l, i.mode)
              /\ arg' = [arg EXCEPT ![t] = @ + 1]
           \/ /\ i.do = "release"
              /\ lock' = Given(t, i.l)
              /\ arg' = [arg EXCEPT ![t] = @ + 1]
           \/ /\ i.do \notin {"acquire", "release"}
              /\ \/ /\ lock' = lock
                    /\ arg' = [arg EXCEPT ![t] = @ + 1]
                 \/ IF i.to = 0
                    THEN /\ lock' = Dropped(t)
                         /\ arg' = [arg EXCEPT ![t] = Len(Code(pc[t])) + 1]
                    ELSE /\ lock' = lock
                         /\ arg' = [arg EXCEPT ![t] = i.to]
    /\ UNCHANGED <<registryVars, writers, trace, peer, snapshot, reset_at,
                   config, load, pc, calls, stats, queue, enqueued, sender,
                   wpc, wmsg, waited, sinceFlush, dpc, fileVars, now,
                   accepted, levelVars>>

\* the method returns
Return(t) ==
    /\ pc[t] # "idle"
    /\ arg[t] > Len(Code(pc[t]))
    /\ calls' = [calls EXCEPT ![t] = Append(@, pc[t])]
    /\ pc' = [pc EXCEPT ![t] = "idle"]
    /\ arg' = [arg EXCEPT ![t] = 1]
    /\ UNCHANGED <<registryVars, graphVars, config, load, stats, queue,
                   enqueued, sender, wpc, wmsg, waited, sinceFlush, dpc,
                   fileVars, now, accepted, levelVars>>

NextOrder ==
    \/ \E t \in Threads : Call(t)
    \/ \E t \in Threads : Step(t)
    \/ \E t \in Threads : Return(t)

SpecOrder == InitOrder /\ [][NextOrder]_vars

----------------------------------------------------------------------------
(* SpecReinit: init called again while the installed dispatcher writes to  *)
(* its log file                                                            *)

\* the configurations init is called with once the singleton is set: file
\* output to the same path, appending or not, synchronous or not
ReinitConfigs ==
    {[console_enabled |-> TRUE, file_enabled |-> TRUE, path |-> "app.log",
      async_enabled |-> a, async_buffer_size |-> 1000, append |-> ap]
     : a \in BOOLEAN, ap \in BOOLEAN}

\* init(config) with what LoggerInstance::new does to the log file: each
\* FileWriter::new opens the file (open_file: create, append or truncate)
\* before GLOBAL_LOGGER.set is reached; the instance that could not be
\* installed is dropped
init_files(t) ==
    /\ rpc[t] = "idle"
    /\ rres[t].n < MaxRegistryCalls
    /\ \E cfg \in IF GLOBAL_LOGGER = None
                  THEN {c \in ReinitConfigs :
                           c.append = config.file.append /\ ~c.async_enabled}
                  ELSE ReinitConfigs :
          LET out    == LoggerInstance_new(cfg)
              opened == open_file([w |-> NoWriter, fs |-> fs, rot |-> rotations],
                                  [config.file EXCEPT !.append = cfg.append], now)
              res    == IF out.res # "Ok" THEN out.res
                        ELSE IF GLOBAL_LOGGER = None THEN "Ok"
                        ELSE "AlreadyInitialized"
          IN  /\ GLOBAL_LOGGER' =
                    IF res = "Ok"
                    THEN Instance(cfg, t, rres[t].n + 1, FALSE)
                    ELSE GLOBAL_LOGGER
              /\ fs' = IF out.files > 0 THEN opened.fs ELSE fs
              /\ fw' = IF res = "Ok" THEN [fw EXCEPT !["sync"] = opened.w] ELSE fw
              /\ rres' = [rres EXCEPT ![t] =
                             [n |-> @.n + 1, op |-> "init", cfg |-> cfg,
                              was_set |-> GLOBAL_LOGGER # None, res |-> res,
                              out |-> out]]
    /\ UNCHANGED <<THREAD_LOCAL_LOGGER, scopes, rpc, graphVars, config, load,
                   dispVars, rotations, now, accepted, levelVars>>

\* the installed dispatcher writes a record to its file
InstalledWrite == GLOBAL_LOGGER # None /\ FileWrite

\* the installed dispatcher flushes
InstalledFlush == GLOBAL_LOGGER # None /\ FileFlush

InitReinit == QuietDispatcher /\ IdleDispatcher /\ EmptyGraph

NextReinit ==
    \/ \E t \in 1..NumThreads : init_files(t)
    \/ InstalledWrite
    \/ InstalledFlush

SpecReinit == InitReinit /\ [][NextReinit]_vars

----------------------------------------------------------------------------
(* What is observed                                                        *)

Last(seq) == seq[Len(seq)]

Recs(lines) == [i \in 1..Len(lines) |-> lines[i].rec]

\* the records on disk in the log file, in file order
Disk == Recs(fs.active.lines)

\* the records handed to a writer, in write order: on disk or in a BufWriter
Written == Recs(fs.active.lines \o fw["sync"].buf \o fw["async"].buf)

\* the record the worker holds between recv and write
Held == IF wpc = "write" THEN <<wmsg>> ELSE <<>>

Occurrences(seq, r) == Cardinality({i \in DOMAIN seq : seq[i] = r})

\* the record of thread t's i-th call
CallRecord(t, i) ==
    [thr |-> t, seq |-> i, level |-> calls[t][i].level,
     module |-> calls[t][i].module]

\* records of one thread appear in the order of its calls
InCallOrder(seq) ==
    \A j, k \in DOMAIN seq :
        (j < k /\ seq[j].thr = seq[k].thr) => seq[j].seq < seq[k].seq

----------------------------------------------------------------------------
(* Claims                                                                  *)

\* thread t's completed calls that returned Ok for a record that passed
\* the threshold
Successful(t) ==
    {i \in DOMAIN calls[t] :
        /\ calls[t][i].res = "Ok"
        /\ Rank(calls[t][i].level)
              <= Rank(EffectiveFor(config, calls[t][i].module))}

RECURSIVE SuccessfulUpTo(_)
SuccessfulUpTo(t) ==
    IF t = 0 THEN 0 ELSE Cardinality(Successful(t)) + SuccessfulUpTo(t - 1)

\* asynchronous mode, no call in progress, the queue drained and flushed
Drained ==
    /\ sender # "none"
    /\ \A t \in Threads : pc[t] \in {"idle", "flushed"}
    /\ queue = <<>>
    /\ wpc # "write"
    /\ fw["async"].buf = <<>>

\* C1: in asynchronous mode, once the queue is drained and flushed, the log
\* file holds exactly one line per successful log call of every thread (T*N
\* lines for T threads of N calls): no record lost, none duplicated.
C1_ExactlyOnce ==
    Drained =>
        /\ Len(Disk) = SuccessfulUpTo(NumThreads)
        /\ \A t \in Threads : \A i \in Successful(t) :
               Occurrences(Disk, CallRecord(t, i)) = 1

C1_Witness ==
    /\ Drained
    /\ \A t \in Threads : Cardinality(Successful(t)) = MaxCalls
    /\ Len(Disk) = NumThreads * MaxCalls

\* C2: in asynchronous mode the worker writes the records in the order in
\* which they arrived in the queue; two records of one thread are never
\* written in reversed order.
C2_FifoOrder ==
    sender # "none" =>
        /\ Written \o Held \o queue = enqueued
        /\ InCallOrder(Written)

C2_Witness ==
    /\ sender # "none"
    /\ \E i, j, k \in DOMAIN Written :
          /\ i < j /\ j < k
          /\ Written[i].thr = Written[k].thr
          /\ Written[j].thr # Written[i].thr

\* C3: when flush() returns on an asynchronous dispatcher, every record
\* sent before the flush() call is written and flushed to the file.
C3_FlushAcknowledged ==
    \A t \in Threads :
        (pc[t] = "flushed" /\ sender # "none") => Len(Disk) >= arg[t].seq

\* C4: in asynchronous mode the dispatcher's file handle is not released
\* and the drop does not complete before every record sent is written and
\* flushed.
C4_DropLosesNothing ==
    (sender # "none" /\ dpc \in {"writer", "done"}) => Disk = enqueued

\* the n-th record sent is the n-th line on disk
OnDisk(n) ==
    IF Len(Disk) >= n /\ Len(enqueued) >= n THEN Disk[n] = enqueued[n] ELSE FALSE

\* C5: under a fairly scheduled worker every record sent is eventually on
\* disk at its place in arrival order; the worker exits only with the queue
\* empty and everything flushed, and it does exit once the sender is closed.
C5_EventuallyFlushed ==
    /\ \A n \in 1..(NumThreads * MaxCalls) :
          (Len(enqueued) >= n) ~> OnDisk(n)
    /\ [](wpc = "exit" => (queue = <<>> /\ Disk = enqueued))
    /\ (sender = "dropped") ~> (wpc = "exit")

C5_Witness ==
    /\ wpc = "exit"
    /\ Len(enqueued) = NumThreads * MaxCalls
    /\ Disk = enqueued

\* no module override applies to module m: the global threshold decides
NoOverride(m) == m = NoModule \/ Overridden(config, m) = {}

\* the records delivered so far: written, held by the worker or queued
Delivered == Written \o Held \o queue

\* C6: with no applicable module override a completed log call at level L
\* has delivered its record (written it, or queued it in asynchronous
\* mode), exactly once, if and only if rank(L) <= rank(threshold); the
\* delivered records of a thread are in the order of its calls.
C6_ThresholdFilter ==
    /\ \A t \in Threads : \A i \in DOMAIN calls[t] :
          NoOverride(calls[t][i].module) =>
              Occurrences(Delivered, CallRecord(t, i)) =
                  IF Rank(calls[t][i].level) <= Rank(config.level)
                  THEN 1 ELSE 0
    /\ InCallOrder(Delivered)

\* threshold Warning, synchronous: Error(a), Info(b), Warning(c) leaves the
\* lines of a and c, in that order
C6_Witness ==
    /\ config.level = "Warning"
    /\ config.module_filters = <<>>
    /\ sender = "none"
    /\ Len(calls[1]) = 3
    /\ [i \in 1..3 |-> calls[1][i].level] = <<"Error", "Info", "Warning">>
    /\ Written = <<CallRecord(1, 1), CallRecord(1, 3)>>

\* C7: a log call filtered out by the effective level returns Ok and
\* changes neither the statistics nor the queue nor any writer or file.
C7_FilteredNoEffect ==
    [][\A t \in Threads :
          (/\ pc[t] = "filter"
           /\ pc'[t] # "filter"
           /\ Rank(arg[t].level) > Rank(EffectiveFor(config, arg[t].module)))
          => /\ pc'[t] = "idle"
             /\ calls'[t] = Append(calls[t], Completed(arg[t], "Ok"))
             /\ UNCHANGED <<stats, queue, enqueued, wmsg, fw, fs>>]_vars

\* a call with a module override was filtered out and nothing was counted
C7_Witness ==
    /\ Len(calls[1]) = 1
    /\ calls[1][1].module # NoModule
    /\ Overridden(config, calls[1][1].module) # {}
    /\ Rank(calls[1][1].level) > Rank(EffectiveFor(config, calls[1][1].module))
    /\ stats.total_messages = 0
    /\ Delivered = <<>>

\* a module path of non-empty segments
WellFormed(m) == \A i \in DOMAIN split(m) : split(m)[i] # <<>>

\* the longest of the module's ancestors that have an override
DeepestAncestor(cfg, m) ==
    CHOOSE a \in Ancestors(m) \cap DOMAIN cfg.module_filters :
        \A b \in Ancestors(m) \cap DOMAIN cfg.module_filters : Len(b) <= Len(a)

\* C8: a module without an exact override, several of whose ancestor paths
\* have overrides, resolves to the level of the longest of those ancestors.
C8_DeepestAncestorWins ==
    (/\ resolved # NotResolved
     /\ WellFormed(query)
     /\ query \notin DOMAIN config.module_filters
     /\ Cardinality(Ancestors(query) \cap DOMAIN config.module_filters) >= 2)
    => resolved = config.module_filters[DeepestAncestor(config, query)]

\* C9: a module that has an override itself or on an ancestor path resolves
\* to the level of one of those overrides; a module with neither resolves
\* to the global level.
C9_InheritedAlongSegments ==
    resolved # NotResolved =>
        IF Overridden(config, query) # {}
        THEN resolved \in {config.module_filters[k] : k \in Overridden(config, query)}
        ELSE resolved = config.level

\* C10: with size-based rotation and more than max_size bytes written,
\* every accepted record is in exactly one file and the backups in rotation
\* order followed by the active file give the records in write order
\* (stated where retention has nothing to delete: keep_files = 0 or no more
\* than keep_files rotations).
C10_RoundTrip ==
    (/\ config.file.rotation.kind = "Size"
     /\ SeqBytes(accepted) > config.file.rotation.max_size
     /\ \/ config.file.rotation.keep_files = 0
        \/ rotations <= config.file.rotation.keep_files)
    => AllLines = accepted

\* the names (suffixes) of the backups that exist in directory d
ExistingBackups(d) == {s \in Suffixes : d.backups[s].exists}

\* C11: a size-based rotation never renames the active file onto an
\* existing backup: a backup that exists before and after a step is the
\* same file with the same content.
C11_NeverOverwrites ==
    [][\A s \in Suffixes :
          (fs.backups[s].exists /\ fs'.backups[s].exists)
              => fs'.backups[s] = fs.backups[s]]_vars

C13_ZeroKeepsAll ==
    [][config.file.rotation.keep_files = 0
       => /\ ExistingBackups(fs) \subseteq ExistingBackups(fs')
          /\ (/\ rotations' = rotations + 1
              /\ RotationSuffix(config.file, now) \notin ExistingBackups(fs))
             => Cardinality(ExistingBackups(fs'))
                   = Cardinality(ExistingBackups(fs)) + 1]_vars

C13_Witness ==
    /\ config.file.rotation.keep_files = 0
    /\ rotations = 3
    /\ Cardinality(ExistingBackups(fs)) = 3

\* C14: synchronous mode, rotation None, flush_interval = 0: when the log
\* call of a delivered record returns, the file on disk has grown by exactly
\* the rendered line and its terminator, and the write buffer is empty.
C14_DurableOnReturn ==
    [][\A t \in Threads :
          (/\ sender = "none"
           /\ config.file.rotation.kind = "None"
           /\ config.file.flush_interval = 0
           /\ pc[t] = "deliver"
           /\ pc'[t] = "idle")
          => /\ fs'.active.lines
                   = Append(fs.active.lines, Render(ConfigFormat, arg[t]))
             /\ SeqBytes(fs'.active.lines)
                   = SeqBytes(fs.active.lines)
                        + LineBytes(Render(ConfigFormat, arg[t]))
             /\ fw'["sync"].buf = <<>>]_vars

C14_Witness ==
    /\ sender = "none"
    /\ config.file.rotation.kind = "None"
    /\ config.file.flush_interval = 0
    /\ pc[1] = "idle"
    /\ Len(calls[1]) = MaxCalls
    /\ Len(fs.active.lines) >= 1
    /\ fw["sync"].buf = <<>>

\* C15: a flush() called right after a flush() returned, with no log call
\* in between, returns and adds nothing: files, buffers, queue and
\* statistics are what they were after the first.
C15_FlushIdempotent ==
    [][\A t \in Threads :
          (pc[t] = "flushed" /\ pc'[t] = "flushed2")
          => UNCHANGED <<fs, fw, queue, enqueued, stats, calls>>]_vars

\* synchronous, buffered: the first flush wrote the lines out, the second
\* has returned
C15_Witness ==
    /\ sender = "none"
    /\ config.file.flush_interval # 0
    /\ pc[1] = "flushed2"
    /\ Len(fs.active.lines) = MaxCalls
    /\ fw["sync"].buf = <<>>

\* thread t completes a registry call of kind op in this step
Completes(t, op) == rres'[t].n = rres[t].n + 1 /\ rres'[t].op = op

\* C16: once the singleton is set, every later init, from any thread and
\* with any configuration, returns AlreadyInitialized and leaves the
\* installed instance in place.
C16_SetAtMostOnce ==
    [][\A t \in 1..NumThreads :
          (Completes(t, "init") /\ GLOBAL_LOGGER # None)
          => /\ rres'[t].res = "AlreadyInitialized"
             /\ GLOBAL_LOGGER' = GLOBAL_LOGGER]_vars

\* C17: an init that fails leaves the singleton as it was (unset stays
\* unset); a current_logger call on a thread without override returns Ok
\* with the global logger, which, if none was installed when the call got
\* to initialize, is a default-configured one it installed itself.
C17_LazyDefault ==
    [][\A t \in 1..NumThreads :
          /\ (Completes(t, "init") /\ rres'[t].res \in {"Config", "Io"})
                => GLOBAL_LOGGER' = GLOBAL_LOGGER
          /\ (Completes(t, "current_logger") /\ THREAD_LOCAL_LOGGER[t] = None)
                => /\ rres'[t].res = "Ok"
                   /\ GLOBAL_LOGGER' # None
                   /\ rres'[t].logger = GLOBAL_LOGGER'
                   /\ GLOBAL_LOGGER = None
                         => /\ GLOBAL_LOGGER'.cfg = DefaultConfig
                            /\ GLOBAL_LOGGER'.lazy]_vars

\* thread 2's init failed while the singleton was unset; thread 1, without
\* override, then got the default logger its own current_logger installed
C17_Witness ==
    /\ rres[2].op = "init"
    /\ rres[2].res \in {"Config", "Io"}
    /\ ~rres[2].was_set
    /\ rres[1].op = "current_logger"
    /\ rres[1].scope = None
    /\ THREAD_LOCAL_LOGGER[1] = None
    /\ GLOBAL_LOGGER # None
    /\ rres[1].logger = GLOBAL_LOGGER
    /\ GLOBAL_LOGGER.lazy
    /\ GLOBAL_LOGGER.by[1] = 1

\* C18: a thread's override is always the logger of the innermost scope it
\* is inside of, and none when it is inside no scope, however the scopes
\* were left (return or unwinding).
C18_ScopeRestored ==
    \A t \in 1..NumThreads : THREAD_LOCAL_LOGGER[t] = EnclosingScope(t)

\* C19: current_logger on a thread returns the logger of the scope the
\* thread is inside of, else the global logger; what it returns from a
\* scope is the thread's own scoped logger, and outside every scope it is
\* never a scoped logger.
C19_ScopedResolution ==
    \A t \in 1..NumThreads :
        rres[t].op = "current_logger" =>
            /\ rres[t].res = "Ok"
            /\ rres[t].logger = IF rres[t].scope # None
                                THEN rres[t].scope ELSE GLOBAL_LOGGER
            /\ rres[t].logger.id = "scoped" => rres[t].logger.thr = t

\* the three conditions validate rejects
Invalid(cfg) ==
    \/ ~cfg.console_enabled /\ ~cfg.file_enabled
    \/ cfg.file_enabled /\ cfg.path = ""
    \/ cfg.async_enabled /\ cfg.async_buffer_size = 0

\* C20: LoggerInstance::new returns a Config error exactly for the
\* configurations with no output, or a file without path, or an async
\* queue of capacity 0, and has then created no writer, opened no file and
\* started no worker.
C20_ValidatedFirst ==
    \A t \in 1..NumThreads :
        rres[t].op = "new" =>
            /\ Invalid(rres[t].cfg) <=> rres[t].out.res = "Config"
            /\ Invalid(rres[t].cfg)
                  => /\ rres[t].out.consoles = 0
                     /\ rres[t].out.files = 0
                     /\ rres[t].out.workers = 0

\* one thread was refused for the queue capacity alone, the other got an
\* asynchronous dispatcher with its worker
C20_Witness ==
    /\ rres[1].op = "new"
    /\ rres[1].cfg = [DefaultConfig EXCEPT !.async_enabled = TRUE,
                                           !.async_buffer_size = 0]
    /\ rres[1].out.res = "Config"
    /\ rres[2].op = "new"
    /\ ~Invalid(rres[2].cfg)
    /\ rres[2].out.res = "Ok"
    /\ rres[2].out.workers = 1

\* C26: MultiWriter.write calls every child that accepts the record's
\* level, in insertion order, also after an earlier child failed; it
\* returns Ok when no child failed, otherwise the error of the first child
\* that failed.
C26_FailOpenFanOut ==
    \A k \in 1..Len(trace) :
        trace[k].op = "write" =>
            LET e       == trace[k]
                asked   == {i \in 1..Len(writers) : should_write(writers[i], e.level)}
                inv     == e.out.invoked
                failing == asked \cap e.faults
            IN  /\ {inv[j] : j \in 1..Len(inv)} = asked
                /\ \A i, j \in 1..Len(inv) : i < j => inv[i] < inv[j]
                /\ (e.out.res = 0) <=> (failing = {})
                /\ failing # {} =>
                       /\ e.out.res \in failing
                       /\ \A i \in failing : e.out.res <= i

\* a write in which the first child asked failed and a later child was
\* still asked
C26_Witness ==
    \E k \in 1..Len(trace) :
        /\ trace[k].op = "write"
        /\ Len(trace[k].out.invoked) >= 2
        /\ trace[k].out.invoked[1] \in trace[k].faults
        /\ trace[k].out.res = trace[k].out.invoked[1]
        /\ \E i \in 1..Len(writers) : ~should_write(writers[i], trace[k].level)

\* C21: in synchronous mode a log call for a record that passes the level
\* check returns an error exactly when the write of the writer graph
\* failed; each failed write increments error_count by exactly one and a
\* successful one leaves it unchanged.
C21_SyncErrorCounted ==
    [][\A t \in Threads :
          (pc[t] = "deliver" /\ pc'[t] = "idle") =>
              LET failed == Last(trace').out.res # 0
              IN  /\ Len(trace') = Len(trace) + 1
                  /\ Last(trace').by = t
                  /\ (Last(calls'[t]).res # "Ok") <=> failed
                  /\ stats'.error_count =
                         stats.error_count + (IF failed THEN 1 ELSE 0)]_vars

\* one call of a thread failed in the file writer and was counted, another
\* succeeded
C21_Witness ==
    /\ sender = "none"
    /\ stats.error_count = 1
    /\ \E t \in Threads : \E i, j \in 1..Len(calls[t]) :
          /\ calls[t][i].res = "Io"
          /\ calls[t][j].res = "Ok"
          /\ calls[t][j].level = "Error"
    /\ \E k \in 1..Len(trace) : trace[k].out.res # 0

\* the sum of f over the levels in S
RECURSIVE SumLevels(_, _)
SumLevels(f, S) ==
    IF S = {} THEN 0
    ELSE LET l == CHOOSE x \in S : TRUE
         IN  f[l] + SumLevels(f, S \ {l})

\* C24: as stats() sees them, messages_by_level[L] is the number of log
\* calls at level L that passed the level check on this instance since it
\* was created or last reset, and total_messages is the sum of
\* messages_by_level over the levels; log calls on another instance are not
\* counted.
C24_StatsCountCalls ==
    StatsLockFree =>
        /\ \A l \in LogLevels :
              stats.messages_by_level[l] =
                  Counted(l, NumThreads) - reset_at.counted[l]
        /\ stats.total_messages = SumLevels(stats.messages_by_level, LogLevels)

\* calls counted before and after a reset_stats, a call filtered out, and a
\* call on the second instance
C24_Witness ==
    /\ StatsLockFree
    /\ reset_at.n = 1
    /\ reset_at.counted["Error"] >= 1
    /\ stats.total_messages >= 2
    /\ peer.total_messages >= 1
    /\ \E t \in Threads : \E i \in 1..Len(calls[t]) : calls[t][i].level = "Debug"

\* C25: reset_stats replaces all counters as one step for every other
\* thread: a stats() snapshot never shows counters that are partly reset
\* (its total_messages is the sum of its messages_by_level), and when
\* reset_stats returns total_messages is 0, messages_by_level is empty and
\* error_count is 0.
C25_ResetAtomic ==
    [][\A t \in Threads :
          /\ snapshot'[t] # snapshot[t] =>
                 snapshot'[t].value.total_messages =
                     SumLevels(snapshot'[t].value.messages_by_level, LogLevels)
          /\ (pc[t] = "reset" /\ pc'[t] = "idle") => stats' = DefaultStats]_vars

\* one thread took a snapshot of counted calls before the reset, the other
\* thread one right after the reset that cleared them
C25_Witness ==
    \E t, u \in Threads :
        /\ snapshot[t].n = 1
        /\ snapshot[t].resets = 0
        /\ snapshot[t].value.total_messages >= 1
        /\ snapshot[u].n = 1
        /\ snapshot[u].resets = 1
        /\ snapshot[u].value = DefaultStats
        /\ reset_at.counted["Error"] >= 1

\* C22: in asynchronous mode a write that fails in the worker is not
\* returned to any log caller, and it is recorded in the statistics:
\* error_count, as stats() shows it, increases by one for each failed write
\* of the worker.
C22_WorkerErrorCounted ==
    [][(wpc = "write" /\ wpc' = "recv" /\ Last(trace').out.res # 0) =>
          /\ calls' = calls
          /\ stats'.error_count = stats.error_count + 1]_vars

\* C23: in asynchronous mode a log call for a record that passes the level
\* check either puts the record into the queue and returns Ok, leaving
\* error_count as it was, or returns a Channel error, increments error_count
\* by one and leaves the queue as it was; it never returns Ok without the
\* record in the queue.
C23_SentOrChannelError ==
    [][\A t \in Threads :
          (sender # "none" /\ pc[t] = "deliver" /\ pc'[t] = "idle") =>
              \/ /\ Last(calls'[t]).res = "Ok"
                 /\ queue' = Append(queue, arg[t])
                 /\ enqueued' = Append(enqueued, arg[t])
                 /\ stats' = stats
              \/ /\ Last(calls'[t]).res = "Channel"
                 /\ wpc = "exit"
                 /\ queue' = queue
                 /\ stats' = [stats EXCEPT !.error_count = @ + 1]]_vars

\* one call of a thread was sent and returned Ok, and after the worker had
\* ended a later call of the thread returned the Channel error
C23_Witness ==
    /\ wpc = "exit"
    /\ stats.error_count >= 1
    /\ \E t \in Threads : \E i, j \in 1..Len(calls[t]) :
          /\ i < j
          /\ calls[t][i].res = "Ok"
          /\ calls[t][i].level = "Error"
          /\ calls[t][j].res = "Channel"

\* C30: an asynchronous dispatcher has exactly one worker and a synchronous
\* one has none; in asynchronous mode no step of a caller (log, flush) and
\* no step of the drop writes to or flushes a writer: the worker's writer
\* and the file change only in steps of the worker.
C30_WorkerOwnsWriters ==
    [][/\ (sender = "none") <=> (wpc = "none")
       /\ (sender' = "none") <=> (wpc' = "none")
       /\ (sender # "none" /\ (pc' # pc \/ dpc' # dpc)) =>
              /\ fs' = fs
              /\ fw'["async"] = fw["async"]
              /\ fw'["sync"].buf = fw["sync"].buf]_vars

\* asynchronous mode: a caller's flush has returned while the worker's
\* writer holds a line the worker wrote
C30_Witness ==
    /\ sender = "open"
    /\ wpc = "recv"
    /\ fw["async"].buf # <<>>
    /\ \E t \in Threads : pc[t] = "flushed"

\* C27: with time-based rotation, a write whose rotation check finds no
\* file at the active path does not rotate and returns Ok: the line is
\* written without error.
C27_MissingFileNoError ==
    \A k \in 1..Len(trace) :
        (trace[k].op = "write" /\ trace[k].due /\ trace[k].missing) =>
            trace[k].res = "Ok"

\* C28: after update_config has succeeded the writer graph is the one built
\* from the new configuration: at every moment the writers are those that
\* LoggerInstance::new creates from the stored configuration.
C28_WritersFollowConfig == writers = WriterGraph(config)

\* C29: in synchronous mode at most one thread is inside the writer graph;
\* rotation check, close, rename and reopen, and the write of the line are
\* one critical section: between a close and its reopen, and between the
\* text of a line and its newline, no other thread does anything to the
\* writer, and no line is written while the file is closed.
C29_OneWriterAtATime ==
    /\ Cardinality({t \in Threads :
                       pc[t] \in {"locked", "closed", "open", "text"}}) <= 1
    /\ \A k \in 1..Len(trace) :
          /\ trace[k].op \in {"close", "text"} /\ k < Len(trace) =>
                 /\ trace[k + 1].by = trace[k].by
                 /\ trace[k + 1].op =
                        IF trace[k].op = "close" THEN "reopen" ELSE "newline"
          /\ trace[k].op \in {"reopen", "newline"} =>
                 /\ k > 1
                 /\ trace[k - 1].by = trace[k].by
                 /\ trace[k - 1].op =
                        IF trace[k].op = "reopen" THEN "close" ELSE "text"

\* a thread waits for the guard while the other thread, which holds it, has
\* closed the file for a rotation; lines of both threads were written before
C29_Witness ==
    \E t, u \in Threads :
        /\ t # u
        /\ pc[t] = "closed"
        /\ lock = t
        /\ ~fw["sync"].open
        /\ pc[u] = "deliver"
        /\ \E i, j \in 1..Len(trace) :
              /\ trace[i].op = "newline" /\ trace[i].by = t
              /\ trace[j].op = "newline" /\ trace[j].by = u

\* C31: every line handed to a file writer, by the synchronous path or by
\* the worker, was rendered with the output format and the include_caller
\* flag of the dispatcher's configuration.
C31_WorkerUsesConfig ==
    LET lines == fs.active.lines \o fw["sync"].buf \o fw["async"].buf
    IN  \A i \in 1..Len(lines) :
            /\ lines[i].fmt.format = config.format
            /\ lines[i].fmt.include_caller = config.include_caller

\* what a write of the FileWriter does about rotation: it rotates exactly
\* when the policy is Size and the counter has reached max_size, and (for
\* the max_size values in scope) the line is appended at a counter below
\* max_size, so that the counter then exceeds max_size by less than the line
SizeRule(zero_in_scope) ==
    LET fcfg == config.file
        max  == fcfg.rotation.max_size
        line == accepted'[Len(accepted')]
        size == fw["sync"].current_size
        then == fw'["sync"].current_size
    IN  accepted' # accepted =>
          /\ rotations' # rotations <=>
                (fcfg.rotation.kind = "Size" /\ size >= max)
          /\ rotations' # rotations => rotations' = rotations + 1
          /\ (fcfg.rotation.kind = "Size" /\ (max = 0 => zero_in_scope)) =>
                /\ then - LineBytes(line) < max
                /\ then - max < LineBytes(line)

\* C32 (as the code has it): before each write the FileWriter rotates if and
\* only if the policy is Size and current_size >= max_size, so every file
\* rotated away had reached max_size by its counter; when max_size > 0 no
\* line is appended while the counter is >= max_size and after the write the
\* active file exceeds max_size by less than the line just written.
C32_RotateAtThreshold == [][SizeRule(FALSE)]_vars

\* C32 (as stated): the same for every max_size, 0 included.
C32_AsStated == [][SizeRule(TRUE)]_vars

\* a file left by a previous run beyond max_size was rotated away by the
\* first write, and lines were appended to its successor
C32_Witness ==
    /\ config.file.rotation.kind = "Size"
    /\ config.file.rotation.max_size > 1
    /\ rotations >= 2
    /\ Len(accepted) >= 3
    /\ \E s \in Suffixes : fs.backups[s].exists /\ fs.backups[s].lines # <<>>
                            /\ fs.backups[s].lines[1].rec = 0

\* C33: the records pending in the asynchronous queue never number more than
\* the configured async_buffer_size.
C33_QueueBounded == Len(queue) <= config.async_buffer_size

\* when the inner writer was last flushed through the decorator before the
\* k-th call: by a write that flushed or by flush(); else its construction
LastFlushed(k) ==
    LET earlier == {j \in 1..(k - 1) : trace[j].flushed}
    IN  IF earlier = {} THEN 0
        ELSE trace[CHOOSE j \in earlier : \A i \in earlier : i <= j].at

\* C34: a write through the BufferedWriter flushes the inner writer only
\* when at least the interval has passed since the inner writer was last
\* flushed through the decorator, by a write or by flush(): a write made
\* less than one interval after an explicit flush() triggers no flush.
C34_FlushSinceLastFlush ==
    \A k \in 1..Len(trace) :
        (trace[k].op = "write" /\ trace[k].flushed) =>
            trace[k].at - LastFlushed(k) >= writers[1].flush_interval

\* C35: a write of the FileWriter that returns Ok appended its line, also
\* after a rotation that failed at the rename or at the reopening.
C35_OkMeansAppended ==
    \A k \in 1..Len(trace) : trace[k].res = "Ok" => trace[k].appended

\* the day a line of the active file was written on
DayOf(line) == trace[line.rec].at \div SecondsPerDay

\* C36: with daily rotation, once a write has made a rotation check that
\* passed the 60-second throttle, the active file (with what its BufWriter
\* holds) has no record of an earlier day: the file of the day before was
\* rotated away by that check at the latest.
C36_RotatedAtFirstCheck ==
    LET k     == Len(trace)
        lines == fs.active.lines \o fw["sync"].buf
    IN  (k > 0 /\ trace[k].due /\ trace[k].res = "Ok" /\ trace[k].at = now) =>
            \A i \in 1..Len(lines) : DayOf(lines[i]) = now \div SecondsPerDay

\* the order in which the locks of a LoggerInstance may be taken
LockRank(l) == CASE l = "config" -> 1 [] l = "writer" -> 2 [] l = "stats" -> 3

\* C37: whatever the interleaving of log, flush, stats, reset_stats, config
\* and update_config calls, a thread takes a lock only after the locks it
\* holds in the order config, writer, stats; a thread that holds the stats
\* lock does nothing but give it back (it takes no lock and makes no write
\* or flush); and while some call is under way some thread in a call can
\* take its next step, also when the RwLock keeps readers behind a waiting
\* writer: there is no deadlock.
C37_NoDeadlock ==
    /\ \A t \in Threads : \A h \in Holds(t) :
          /\ Wants(t) # "none" => LockRank(h) < LockRank(Wants(t))
          /\ h = "stats" => InCall(t) /\ Ins(t) = Release("stats")
    /\ (\E t \in Threads : InCall(t)) =>
          \E t \in Threads : InCall(t) /\ GrantsFair(t)

\* a thread whose write failed holds the writer lock and the stats lock
\* while another thread holds a read guard of the configuration and waits
\* for the stats lock
C37_Witness ==
    \E t, u \in Threads :
        /\ t # u
        /\ Holds(t) = {"writer", "stats"}
        /\ pc[t] = "log"
        /\ Holds(u) = {"config"}
        /\ Wants(u) = "stats"
        /\ \E v \in Threads : "update_config" \in {calls[v][k] : k \in 1..Len(calls[v])}

\* C38: the counters a stats() call returns never show more errors than
\* messages: error_count <= total_messages, whatever log calls (failing
\* ones too) and reset_stats calls ran beside it.
C38_ErrorsWithinTotal ==
    \A t \in Threads :
        snapshot[t].n > 0 =>
            snapshot[t].value.error_count <= snapshot[t].value.total_messages

\* C39: the singleton is installed once and never replaced, and every
\* current_logger call of a thread without override returns Ok with the
\* installed instance, the same for all threads, also when several of them
\* found the singleton unset and went on to initialize it at the same time.
C39_OneDefaultForAll ==
    [][/\ GLOBAL_LOGGER # None => GLOBAL_LOGGER' = GLOBAL_LOGGER
       /\ \A t \in 1..NumThreads :
             (Completes(t, "current_logger") /\ THREAD_LOCAL_LOGGER[t] = None)
                => /\ rres'[t].res = "Ok"
                   /\ rres'[t].logger = GLOBAL_LOGGER'
                   /\ \A u \in 1..NumThreads :
                         (rres'[u].op = "current_logger" /\ rres'[u].override = None)
                            => rres'[u].logger = rres'[t].logger]_vars

\* both threads found the singleton unset and went on to init_default();
\* one installed the default logger, the other lost and received that
\* same instance
C39_Witness ==
    \E t, u \in 1..NumThreads :
        /\ t # u
        /\ rres[t].op = "current_logger" /\ rres[t].via_init
        /\ rres[u].op = "current_logger" /\ rres[u].via_init
        /\ rres[t].override = None /\ rres[u].override = None
        /\ rres[t].res = "Ok" /\ rres[u].res = "Ok"
        /\ GLOBAL_LOGGER.lazy
        /\ GLOBAL_LOGGER.by[1] = t
        /\ rres[u].logger = GLOBAL_LOGGER
        /\ rres[t].logger = GLOBAL_LOGGER

\* C40: an init call made while the singleton is set returns
\* AlreadyInitialized and changes nothing: the log file is neither created
\* nor truncated nor touched, and no writer and no worker thread was made.
C40_ReinitChangesNothing ==
    [][\A t \in 1..NumThreads :
          (Completes(t, "init") /\ GLOBAL_LOGGER # None)
             => /\ rres'[t].res = "AlreadyInitialized"
                /\ fs' = fs
                /\ rres'[t].out.files = 0
                /\ rres'[t].out.workers = 0
                /\ rres'[t].out.consoles = 0]_vars

====
